---- MODULE Spec2Model ----
(***************************************************************************)
(* Verification model of the ingestion -> summary cache -> relevance       *)
(* linking pipeline of ofgem-compliance-summariser.                        *)
(*                                                                         *)
(* Strings are sequences of one-character strings, so that split, strip,   *)
(* lower, substring search and tokenisation are computed, not assumed.     *)
(***************************************************************************)
EXTENDS Integers, Sequences, FiniteSets, TLC

VARIABLES
    genIn,      \* SpecGen: the arguments of one generate_ai_summary call
    genOut,     \* SpecGen: <<>> before the call, <<result>> after it
    scIn,       \* SpecScore, SpecMono: the arguments of one scoring call
    scOut,      \* SpecScore, SpecMono: <<>> before the call, <<result>> after it
    items,      \* table items, its rows in rowid order
    runPc,      \* per ingestion run: "idle", or "checked" between exists() and upsert_item()
    runItem,    \* per ingestion run: the feed entry in hand
    lastFed,    \* history: per guid, the record the feed loop handled last
    lastWrite,  \* history: per guid, the latest upsert_item call
    fnIn,       \* SpecTags, SpecClean, SpecFilter: the arguments of one call
    fnOut,      \* SpecTags, SpecClean, SpecFilter: <<>> before the call, <<result>> after it
    reqLog,     \* SpecSum: the responses of the summary requests, in order
    controls,   \* SpecLink: table controls, its rows in id order
    links,      \* SpecLink: table item_control_links, a set of rows
    relinked,   \* SpecLink: <<call>> right after a relink_item_controls call (its
                \* arguments and result; again: it repeats the call before it), else <<>>
    seeded,     \* SpecSeed: <<run>> right after a run of the seed tool (its list, the
                \* ids upsert_control returned, the ids the refs had before their
                \* call, again: it repeats the run before it, unchanged: it left
                \* the table as it was), else <<>>
    fetchCall,  \* SpecFetch: the arguments tries and backoff of one _fetch call
    fetchI,     \* SpecFetch: the loop variable i of _fetch
    fetchPc,    \* SpecFetch: "get" before a request, "sleep" before a wait,
                \* "returned" or "raised" after the call
    fetchErr,   \* SpecFetch: last_err of _fetch
    fetchLog,   \* history: the requests and waits of the _fetch call, in order
    crawlPc,    \* crawler: "get" before a listing-page request, "done" after the return
    crawlRoot,  \* crawler: position of root in start_urls
    crawlPage,  \* crawler: page
    crawlUrl,   \* crawler: url
    crawlLog,   \* history: the listing-page requests made for the current root
    pipePc,     \* run: "collect" in the loop over collect_items(), "item" with an
                \* item of it in hand, "crawl" in the crawler, "done" after "Done."
    srcIdx,     \* collect_items: position of the loop over SOURCES
    hand,       \* run: the item collect_items yielded last, while it is handled
    srcLog,     \* history: the sources collect_items fetched, in order
    srcFailed,  \* history: how many of them failed
    crawlLeft,  \* history: per root already left: the pages requested, why it was
                \* left, and the requests made for its last page
    batchIn,    \* SpecBatch: what the sources hold: the feed entries and the listing cards
    batchPos,   \* SpecBatch: position of the run in them, 0 after "Done."
    tally,      \* SpecBatch: saved, skipped and failed of run
    crawlTally, \* SpecBatch: kept and skipped of scrape_ofgem_publications
    batchHist,  \* history of SpecBatch: the candidates handled and the store writes
                \* that failed in this process, the processes killed so far, whether
                \* a write failed in any of them, and the rows this process inherited
    txPc,       \* SpecTx: position of a relink_item_controls call: "idle", "scored"
                \* after the scoring loop, "open" between DELETE and commit,
                \* "done" after the return, "failed" after an exception
    txView,     \* SpecTx: item_control_links as the connection of the call sees it
    txTodo,     \* SpecTx: the rows executemany has still to insert
    txHist,     \* history of SpecTx: the item of the call, its links when DELETE ran,
                \* and the rows the call is to insert
    seen,       \* history of SpecTx: <<what the last list_item_links call since the
                \* start of the relink call returned>>
    inFlight    \* SpecRace: the summary requests that have read the table and
                \* generated a summary, and have not written it yet

genVars == <<genIn, genOut>>
scVars == <<scIn, scOut>>
dbVars == <<items>>
runVars == <<runPc, runItem, lastFed, lastWrite>>
sumVars == <<reqLog>>
fnVars == <<fnIn, fnOut>>
linkVars == <<controls, links, relinked>>
fetchVars == <<fetchCall, fetchI, fetchPc, fetchErr, fetchLog>>
crawlVars == <<crawlPc, crawlRoot, crawlPage, crawlUrl, crawlLog, crawlLeft>>
seedVars == <<seeded>>
pipeVars == <<pipePc, srcIdx, hand, srcLog, srcFailed>>
netVars == <<fetchVars, crawlVars, pipeVars>>
batchVars == <<batchIn, batchPos, tally, crawlTally, batchHist>>
txVars == <<txPc, txView, txTodo, txHist, seen>>
raceVars == <<inFlight>>
jobVars == <<batchVars, txVars, raceVars>>
vars == <<genVars, scVars, dbVars, runVars, sumVars, linkVars, fnVars, netVars, seedVars, jobVars>>

GenIdle == genIn = <<>> /\ genOut = <<>>
ScIdle == scIn = <<>> /\ scOut = <<>>
DbIdle == items = <<>>
RunIdle == runPc = <<>> /\ runItem = <<>> /\ lastFed = <<>> /\ lastWrite = <<>>
SumIdle == reqLog = <<>>
FnIdle == fnIn = <<>> /\ fnOut = <<>>
FetchIdle ==
    fetchCall = <<>> /\ fetchI = 0 /\ fetchPc = "idle" /\ fetchErr = "None" /\ fetchLog = <<>>
CrawlIdle ==
    /\ crawlPc = "idle" /\ crawlRoot = 0 /\ crawlPage = 0 /\ crawlUrl = <<>>
    /\ crawlLog = <<>> /\ crawlLeft = <<>>
SeedIdle == seeded = <<>>
PipeIdle ==
    pipePc = "idle" /\ srcIdx = 0 /\ hand = <<>> /\ srcLog = <<>> /\ srcFailed = 0
NetIdle == FetchIdle /\ CrawlIdle /\ PipeIdle
BatchIdle ==
    batchIn = <<>> /\ batchPos = 0 /\ tally = <<>> /\ crawlTally = <<>> /\ batchHist = <<>>
TxIdle == txPc = "idle" /\ txView = {} /\ txTodo = <<>> /\ txHist = <<>> /\ seen = <<>>
RaceIdle == inFlight = <<>>
JobIdle == BatchIdle /\ TxIdle /\ RaceIdle
LinkIdle == controls = <<>> /\ links = {} /\ relinked = <<>>

(***************************************************************************)
(* Bounds of the model                                                     *)
(***************************************************************************)
MaxTextLen == 4     \* longest item text of SpecGen, in characters
MaxReplyLen == 3    \* longest provider reply of SpecGen, in characters
MaxLimit == 3       \* largest word_limit of SpecGen
MaxParts == 3       \* most parts an item text of SpecScore, SpecMono is made of
MaxKws == 2         \* longest keyword list of a control

(***************************************************************************)
(* Python string primitives                                                *)
(***************************************************************************)
Min(a, b) == IF a <= b THEN a ELSE b
Max(a, b) == IF a >= b THEN a ELSE b

\* str.isspace() for the characters the model uses
IsSpace(c) == c \in {" ", "\n", "\t", "\r"}

\* U+2026, one character
Ellipsis == "..."

\* all strings over alphabet A of length <= n
StrUpTo(A, n) == UNION {[1..k -> A] : k \in 0..n}

RECURSIVE SplitAcc(_, _, _)
SplitAcc(s, cur, acc) ==
    IF s = <<>>
    THEN IF cur = <<>> THEN acc ELSE Append(acc, cur)
    ELSE IF IsSpace(Head(s))
         THEN SplitAcc(Tail(s), <<>>, IF cur = <<>> THEN acc ELSE Append(acc, cur))
         ELSE SplitAcc(Tail(s), Append(cur, Head(s)), acc)

\* str.split(): the maximal runs of non-whitespace characters
Split(s) == SplitAcc(s, <<>>, <<>>)

\* str.split(sep) for a one-character separator: the pieces between the
\* separators
SplitOn(s, sep) ==
    LET cuts == <<0>> \o SelectSeq([i \in 1..Len(s) |-> i], LAMBDA i : s[i] = sep)
                      \o <<Len(s) + 1>>
    IN  [k \in 1..(Len(cuts) - 1) |-> SubSeq(s, cuts[k] + 1, cuts[k + 1] - 1)]

RECURSIVE JoinSp(_)
\* " ".join(words)
JoinSp(ws) ==
    IF ws = <<>> THEN <<>>
    ELSE IF Len(ws) = 1 THEN ws[1]
    ELSE ws[1] \o <<" ">> \o JoinSp(Tail(ws))

RECURSIVE LStrip(_)
LStrip(s) == IF s # <<>> /\ IsSpace(Head(s)) THEN LStrip(Tail(s)) ELSE s

RECURSIVE RStrip(_)
RStrip(s) ==
    IF s # <<>> /\ IsSpace(s[Len(s)]) THEN RStrip(SubSeq(s, 1, Len(s) - 1)) ELSE s

\* str.strip()
Strip(s) == RStrip(LStrip(s))

\* seq[:n], negative n counting from the end as Python does
SliceTo(s, n) ==
    IF n >= 0 THEN SubSeq(s, 1, Min(n, Len(s)))
    ELSE SubSeq(s, 1, Max(0, Len(s) + n))

(***************************************************************************)
(* api/ai_summary.py: the bounded summary                                  *)
(***************************************************************************)
\* "No content available to summarise."
NoContentSentinel ==
    <<"N","o"," ","c","o","n","t","e","n","t"," ","a","v","a","i","l","a","b","l","e",
      " ","t","o"," ","s","u","m","m","a","r","i","s","e",".">>

fallback_ai_summary(text, limit_words) ==
    LET words == Split(text)
        snippet == JoinSp(SliceTo(words, limit_words))
    IN  snippet \o (IF Len(words) > limit_words THEN <<Ellipsis>> ELSE <<>>)

\* What the provider does with a request: no client (no API key, or the client
\* cannot be built), the call raises, or it replies with some content.
Absent == [kind |-> "absent", content |-> <<>>]
Failing == [kind |-> "error", content |-> <<>>]
Reply(c) == [kind |-> "reply", content |-> c]

\* The result of a call: the string returned, whether an error left the
\* function, and how often the provider was called.
Ret(out, calls) == [out |-> out, raised |-> FALSE, calls |-> calls]

\* the provider's reply returned as it came, never cut to limit_words
generate_ai_summary_Uncapped(title, text0, limit_words, provider) ==
    LET text == Strip(text0)
    IN  IF text = <<>> THEN Ret(NoContentSentinel, 0)
        ELSE IF provider.kind = "absent" THEN Ret(fallback_ai_summary(text, limit_words), 0)
        ELSE IF provider.kind = "error" THEN Ret(fallback_ai_summary(text, limit_words), 1)
        ELSE Ret(Strip(provider.content), 1)

\* no try/except around the provider call: its error leaves the function
generate_ai_summary_Propagates(title, text0, limit_words, provider) ==
    LET text == Strip(text0)
    IN  IF text = <<>> THEN Ret(NoContentSentinel, 0)
        ELSE IF provider.kind = "absent" THEN Ret(fallback_ai_summary(text, limit_words), 0)
        ELSE IF provider.kind = "error" THEN [out |-> <<>>, raised |-> TRUE, calls |-> 1]
        ELSE Ret(Strip(provider.content), 1)

generate_ai_summary(title, text0, limit_words, provider) ==
    LET text == Strip(text0)
    IN  IF text = <<>> THEN Ret(NoContentSentinel, 0)
        ELSE IF provider.kind = "absent" THEN Ret(fallback_ai_summary(text, limit_words), 0)
        ELSE IF provider.kind = "error" THEN Ret(fallback_ai_summary(text, limit_words), 1)
        ELSE LET out == Strip(provider.content)
                 words == Split(out)
             IN  IF Len(words) > limit_words
                 THEN Ret(JoinSp(SliceTo(words, limit_words)) \o <<Ellipsis>>, 1)
                 ELSE Ret(out, 1)

(***************************************************************************)
(* storage/db.py: relevance score of an item text against a control        *)
(***************************************************************************)
UpperLetters == <<"A","B","C","D","E","F","G","H","I","J","K","L","M",
                  "N","O","P","Q","R","S","T","U","V","W","X","Y","Z">>
LowerLetters == <<"a","b","c","d","e","f","g","h","i","j","k","l","m",
                  "n","o","p","q","r","s","t","u","v","w","x","y","z">>
Digits == {"0","1","2","3","4","5","6","7","8","9"}

UpperSet == {UpperLetters[i] : i \in 1..26}
LowerOf == [c \in UpperSet |-> LowerLetters[CHOOSE i \in 1..26 : UpperLetters[i] = c]]
AlnumSet == UpperSet \cup {LowerLetters[i] : i \in 1..26} \cup Digits

\* str.lower(), one character
LowerChar(c) == IF c \in UpperSet THEN LowerOf[c] ELSE c

\* str.lower()
Lower(s) == [i \in 1..Len(s) |-> LowerChar(s[i])]

\* [A-Za-z0-9]
IsAlnum(c) == c \in AlnumSet

\* sub in s
Contains(sub, s) ==
    \E i \in 0..(Len(s) - Len(sub)) : SubSeq(s, i + 1, i + Len(sub)) = sub

\* {3,} of _WORD
MinTokenLen == 3

RECURSIVE TokenAcc(_, _, _)
TokenAcc(s, cur, acc) ==
    LET closed == IF Len(cur) >= MinTokenLen THEN acc \cup {Lower(cur)} ELSE acc
    IN  IF s = <<>> THEN closed
        ELSE IF IsAlnum(Head(s)) THEN TokenAcc(Tail(s), Append(cur, Head(s)), acc)
        ELSE TokenAcc(Tail(s), <<>>, closed)

\* the lowercased maximal alphanumeric runs of any length
Tokenize_AnyLength(text) ==
    LET run(i, j) == /\ i <= j
                     /\ \A k \in i..j : IsAlnum(text[k])
                     /\ (i = 1 \/ ~IsAlnum(text[i - 1]))
                     /\ (j = Len(text) \/ ~IsAlnum(text[j + 1]))
    IN  {Lower(SubSeq(text, p[1], p[2])) :
            p \in {q \in (1..Len(text)) \X (1..Len(text)) : run(q[1], q[2])}}

\* DB._tokenize: the lowercased maximal alphanumeric runs of 3 or more characters
Tokenize(text) == TokenAcc(text, <<>>, {})

\* Rationals n/d with d > 0 stand for the floats of the code.
Frac(n, d) == [n |-> n, d |-> d]
FracAdd(x, y) == Frac(x.n * y.d + y.n * x.d, x.d * y.d)
FracLe(x, y) == x.n * y.d <= y.n * x.d
FracLt(x, y) == x.n * y.d < y.n * x.d
FracEq(x, y) == x.n * y.d = y.n * x.d
FracMin(x, y) == IF FracLe(x, y) THEN x ELSE y
Zero == Frac(0, 1)
One == Frac(1, 1)
PhraseBoost == Frac(1, 2)
NameBonus == Frac(1, 10)

\* A keywords column: text json.loads accepts as a list of elements (each a
\* string or not), or text it rejects with JSONDecodeError.
JsonList(elems) == [valid |-> TRUE, list |-> elems]
Malformed == [valid |-> FALSE, list |-> <<>>]
StrElem(s) == [isStr |-> TRUE, s |-> s]
NumElem == [isStr |-> FALSE, s |-> <<>>]

\* kws = [k for k in (kws or []) if isinstance(k, str) and k.strip()]
LoadKeywords(json) ==
    LET kept(e) == e.isStr /\ Strip(e.s) # <<>>
        elems == IF json.valid THEN SelectSeq(json.list, kept) ELSE <<>>
    IN  [i \in 1..Len(elems) |-> elems[i].s]

IsPhrase(k) == \E i \in 1..Len(k) : k[i] = " "

\* how many elements of q satisfy P

\* the added keyword dilutes the hits: every keyword but the last is scored
score_LastIgnored(item_text, ctrl_keywords_json) ==
    LET kws == LoadKeywords(ctrl_keywords_json)
        text == Lower(item_text)
        words == Tokenize(text)
        phraseHit(kw) == LET k == Lower(Strip(kw)) IN IsPhrase(k) /\ Contains(k, text)
        wordHit(kw) == LET k == Lower(Strip(kw)) IN ~phraseHit(kw) /\ k \in words
        single(kw) == ~IsPhrase(kw)
        counted == SubSeq(kws, 1, Len(kws) - 1)
    IN  IF kws = <<>> THEN Zero
        ELSE FracMin(One,
                 FracAdd(Frac(Len(SelectSeq(counted, wordHit)), Max(1, Len(SelectSeq(kws, single)))),
                         FracMin(One, Frac(Len(SelectSeq(counted, phraseHit)), 4))))

\* DB._score_item_against_control
score_item_against_control(item_text, ctrl_keywords_json) ==
    LET kws == LoadKeywords(ctrl_keywords_json)
        text == Lower(item_text)
        words == Tokenize(text)
        phraseHit(kw) == LET k == Lower(Strip(kw)) IN IsPhrase(k) /\ Contains(k, text)
        wordHit(kw) == LET k == Lower(Strip(kw)) IN ~phraseHit(kw) /\ k \in words
        single(kw) == ~IsPhrase(kw)
        overlap == Len(SelectSeq(kws, wordHit))
        \* phrase_boost / 2.0, with phrase_boost = 0.5 per phrase found
        half_boost == Frac(PhraseBoost.n * Len(SelectSeq(kws, phraseHit)), PhraseBoost.d * 2)
        base == Frac(overlap, Max(1, Len(SelectSeq(kws, single))))
    IN  IF kws = <<>> THEN Zero
        ELSE FracMin(One, FracAdd(base, FracMin(One, half_boost)))

\* the bonus added without the cap that follows it
ControlScore_NoCap(text, name, keywords) ==
    LET score == score_item_against_control(text, keywords)
        bonus == \E tok \in Tokenize(name) : Contains(tok, Lower(text))
    IN  IF bonus THEN FracAdd(score, NameBonus) ELSE score

\* relink_item_controls, the score of one control: the keyword score, plus 0.1
\* when a token of the control's name occurs in the lowercased text, capped at 1
ControlScore(text, name, keywords) ==
    LET score == score_item_against_control(text, keywords)
        lowtext == Lower(text)
        bonus == \E tok \in Tokenize(name) : Contains(tok, lowtext)
    IN  FracMin(One, IF bonus THEN FracAdd(score, NameBonus) ELSE score)

(***************************************************************************)
(* SpecGen: one call of generate_ai_summary on every bounded input         *)
(***************************************************************************)
GenAlphabet == {"a", "b", " "}
GenTexts == StrUpTo(GenAlphabet, MaxTextLen)
GenReplies == StrUpTo(GenAlphabet, MaxReplyLen)
GenProviders == {Absent, Failing} \cup {Reply(c) : c \in GenReplies}
GenTitle == <<"t">>

InitGen ==
    /\ genIn \in [text : GenTexts, limit : 0..MaxLimit, provider : GenProviders]
    /\ genOut = <<>>
    /\ ScIdle /\ DbIdle /\ RunIdle /\ SumIdle /\ LinkIdle /\ FnIdle /\ NetIdle /\ SeedIdle /\ JobIdle

Generate ==
    /\ genOut = <<>>
    /\ genOut' = <<generate_ai_summary(GenTitle, genIn.text, genIn.limit, genIn.provider)>>
    /\ UNCHANGED <<genIn, scVars, dbVars, runVars, sumVars, linkVars, fnVars, netVars, seedVars, jobVars>>

NextGen == Generate

SpecGen == InitGen /\ [][NextGen]_vars

(***************************************************************************)
(* SpecScore: the score of one control for every bounded text, keywords    *)
(* column and control name.  SpecMono: the score before and after one      *)
(* keyword is appended to the list.                                        *)
(***************************************************************************)
RECURSIVE Concat(_)
Concat(parts) == IF parts = <<>> THEN <<>> ELSE Head(parts) \o Concat(Tail(parts))

TextParts == {<<"I","n","c">>, <<"r","e","p">>, <<" ">>, <<"-">>}
ScoreTexts == {Concat(ps) : ps \in StrUpTo(TextParts, MaxParts)}

KwInc == <<"i","n","c">>
KwRep == <<"R","e","p">>
KwIncRep == <<"i","n","c"," ","r","e","p">>
KwSpRep == <<" ","r","e","p">>
KwZzz == <<"z","z","z">>
KwPool == {KwInc, KwRep, KwIncRep, KwSpRep, KwZzz}
KwElems == {StrElem(k) : k \in KwPool} \cup {NumElem}
KeywordColumns == {JsonList(q) : q \in StrUpTo(KwElems, MaxKws)} \cup {Malformed}
ControlNames == {<<"I","n","c">>, <<"r","e">>, <<"z","z","z"," ","o","t">>}

InitScore ==
    /\ scIn \in [text : ScoreTexts, keywords : KeywordColumns, name : ControlNames]
    /\ scOut = <<>>
    /\ GenIdle /\ DbIdle /\ RunIdle /\ SumIdle /\ LinkIdle /\ FnIdle /\ NetIdle /\ SeedIdle /\ JobIdle

Score ==
    /\ scOut = <<>>
    /\ scOut' = <<[score |-> score_item_against_control(scIn.text, scIn.keywords),
                   linked |-> ControlScore(scIn.text, scIn.name, scIn.keywords)]>>
    /\ UNCHANGED <<scIn, genVars, dbVars, runVars, sumVars, linkVars, fnVars, netVars, seedVars, jobVars>>

NextScore == Score

SpecScore == InitScore /\ [][NextScore]_vars

(***************************************************************************)
(* SpecKeyword: the scoring call on keyword lists with keywords that are   *)
(* no token: too short, or with a character that is not alphanumeric       *)
(***************************************************************************)
KwOT == <<"O","T">>
KwCve == <<"c","v","e","-">>
Kw321 == <<"3","-","2","-","1">>
KeywordParts == {<<"I","n","c">>, KwOT, KwCve, Kw321, <<" ">>}
KeywordTexts == {Concat(ps) : ps \in StrUpTo(KeywordParts, MaxParts)}
KeywordLists ==
    {JsonList(q) : q \in StrUpTo({StrElem(k) : k \in {KwInc, KwOT, KwCve, Kw321, KwIncRep}}, MaxKws)}

InitKeyword ==
    /\ scIn \in [text : KeywordTexts, keywords : KeywordLists, name : {<<"r","e">>}]
    /\ scOut = <<>>
    /\ GenIdle /\ DbIdle /\ RunIdle /\ SumIdle /\ LinkIdle /\ FnIdle /\ NetIdle /\ SeedIdle /\ JobIdle

SpecKeyword == InitKeyword /\ [][NextScore]_vars

StrColumns == {JsonList(q) : q \in StrUpTo({StrElem(k) : k \in KwPool}, MaxKws)}

InitMono ==
    /\ scIn \in [text : ScoreTexts, keywords : StrColumns, added : KwPool]
    /\ scOut = <<>>
    /\ GenIdle /\ DbIdle /\ RunIdle /\ SumIdle /\ LinkIdle /\ FnIdle /\ NetIdle /\ SeedIdle /\ JobIdle

\* the keywords column with one more keyword at its end
WithKeyword(json, kw) == JsonList(Append(json.list, StrElem(kw)))

ScoreBeforeAfter ==
    /\ scOut = <<>>
    /\ scOut' = <<[before |-> score_item_against_control(scIn.text, scIn.keywords),
                   after |-> score_item_against_control(scIn.text,
                                 WithKeyword(scIn.keywords, scIn.added))]>>
    /\ UNCHANGED <<scIn, genVars, dbVars, runVars, sumVars, linkVars, fnVars, netVars, seedVars, jobVars>>

NextMono == ScoreBeforeAfter

SpecMono == InitMono /\ [][NextMono]_vars

(***************************************************************************)
(* storage/db.py: the items table                                          *)
(***************************************************************************)
\* SQL NULL / Python None; falsy like the empty string
Null == <<"NULL">>
Truthy(v) == v # Null /\ v # <<>>
\* a or b
Or(a, b) == IF Truthy(a) THEN a ELSE b

RowIdx(g) == {i \in 1..Len(items) : items[i].guid = g}

\* DB.exists: a row with this guid, or with this link
exists(guid_or_link) ==
    \E i \in 1..Len(items) : items[i].guid = guid_or_link \/ items[i].link = guid_or_link

\* DB._dump_tags of a list: its elements trimmed, the empty ones dropped
dump_tags(tags) ==
    LET nonblank(t) == Strip(t) # <<>>
        kept == SelectSeq(tags, nonblank)
    IN  [i \in 1..Len(kept) |-> Strip(kept[i])]

\* the payload upsert_item builds from an item dict
Payload(item) ==
    [guid |-> Or(item.guid, item.link),
     source |-> Or(item.source, <<>>),
     title |-> Or(item.title, <<>>),
     link |-> Or(item.link, <<>>),
     content |-> Or(item.content, <<>>),
     summary |-> Or(item.summary, <<>>),
     published_at |-> Or(item.published_at, <<>>),
     tags |-> dump_tags(item.tags)]

NewRow(p) ==
    [guid |-> p.guid, source |-> p.source, title |-> p.title, link |-> p.link,
     content |-> p.content, summary |-> p.summary, published_at |-> p.published_at,
     tags |-> p.tags, ai_summary |-> Null, ai_summary_updated_at |-> Null]

\* INSERT OR REPLACE: the row is written anew
Updated_Replace(row, p) == NewRow(p)

\* ON CONFLICT(guid) DO UPDATE SET ...: every column of the payload, not
\* ai_summary and not ai_summary_updated_at
Updated(row, p) ==
    [row EXCEPT !.source = p.source, !.title = p.title, !.link = p.link,
                !.content = p.content, !.summary = p.summary,
                !.published_at = p.published_at, !.tags = p.tags]

\* a plain INSERT with no uniqueness on guid
upsert_item_BlindInsert(tbl, item) == Append(tbl, NewRow(Payload(item)))

\* INSERT OR IGNORE: a conflicting row is left as it was
upsert_item_Ignore(tbl, item) ==
    LET p == Payload(item)
    IN  IF p.guid # Null /\ \E i \in 1..Len(tbl) : tbl[i].guid = p.guid
        THEN tbl
        ELSE Append(tbl, NewRow(p))

\* DB.upsert_item: the table after the statement (a NULL guid conflicts with
\* nothing)
upsert_item(tbl, item) ==
    LET p == Payload(item)
    IN  IF p.guid # Null /\ \E i \in 1..Len(tbl) : tbl[i].guid = p.guid
        THEN [i \in 1..Len(tbl) |-> IF tbl[i].guid = p.guid THEN Updated(tbl[i], p) ELSE tbl[i]]
        ELSE Append(tbl, NewRow(p))

\* the columns upsert_item writes
Fields(row) ==
    [guid |-> row.guid, source |-> row.source, title |-> row.title, link |-> row.link,
     content |-> row.content, summary |-> row.summary,
     published_at |-> row.published_at, tags |-> row.tags]

(***************************************************************************)
(* summariser/model.py: the heuristic summary and tags of the feed loop    *)
(***************************************************************************)
UpperOf == [c \in {LowerLetters[i] : i \in 1..26} |->
                UpperLetters[CHOOSE i \in 1..26 : LowerLetters[i] = c]]
Upper(s) == [i \in 1..Len(s) |-> IF s[i] \in DOMAIN UpperOf THEN UpperOf[s[i]] ELSE s[i]]

\* U+2014, one character
EmDash == "--"

\* _fallback_summary for a text of at most 60 words, each starting with a
\* word character: the title, " -- ", and the words joined by single spaces
fallback_summary(text, title) ==
    (IF title # <<>> THEN title \o <<" ", EmDash, " ">> ELSE <<>>) \o JoinSp(Split(text))

\* RULES, the entries "Incident" and "NIS2"
RULES ==
    {[tag |-> <<"I","n","c","i","d","e","n","t">>,
      needles |-> {<<"i","n","c","i","d","e","n","t">>, <<"o","u","t","a","g","e">>}],
     [tag |-> <<"N","I","S","2">>, needles |-> {<<"n","i","s","2">>}]}

\* code point order of the characters the model uses
CharOrder ==
    <<"\t", "\n", " ", "-", ".", "/">>
    \o <<"0","1","2","3","4","5","6","7","8","9">> \o UpperLetters \o <<"[">> \o LowerLetters
Rank(c) == CHOOSE i \in 1..Len(CharOrder) : CharOrder[i] = c

RECURSIVE StrLess(_, _)
StrLess(x, y) ==
    IF y = <<>> THEN FALSE
    ELSE IF x = <<>> THEN TRUE
    ELSE IF Head(x) = Head(y) THEN StrLess(Tail(x), Tail(y))
    ELSE Rank(Head(x)) < Rank(Head(y))

\* sorted(S)
RECURSIVE Sorted(_)
Sorted(S) ==
    IF S = {} THEN <<>>
    ELSE LET x == CHOOSE y \in S : \A z \in S \ {y} : StrLess(y, z)
         IN  <<x>> \o Sorted(S \ {x})

heuristic_tags(text, title, source) ==
    LET blob == Lower(title \o <<"\n">> \o text)
        hits == {r.tag : r \in {q \in RULES : \E n \in q.needles : Contains(n, blob)}}
    IN  hits \cup (IF Truthy(source) THEN {Upper(source)} ELSE {})

\* summarise_and_tag with no provider configured, or with a provider whose
\* call raises: the fallback summary and the heuristic tags
summarise_and_tag(text, title, source) ==
    [summary |-> fallback_summary(text, title),
     tags |-> Sorted(heuristic_tags(text, title, source))]

(***************************************************************************)
(* scraper/ofgem.py, main.py, scraper/ofgem_publications.py: ingestion     *)
(***************************************************************************)
Runs == {1, 2}
Guids == {<<"g","1">>, <<"u","1">>}

\* what a feed entry or a listing card carries: title, body and date
Version(v) ==
    CASE v = 0 -> [title |-> <<>>, content |-> <<>>, published |-> Null]
      [] v = 1 -> [title |-> <<" ","I","n","c">>, content |-> <<"I","n","c"," ","r","e","p">>,
                   published |-> <<"2","0","2","5">>]
      [] v = 2 -> [title |-> <<"R","e","p">>, content |-> <<"z","z","z">>,
                   published |-> Null]

\* entries that passed the source filter: with an id, a link or both, and the
\* entry that has none of id, link and title
FeedEntries ==
    {e \in [id : {Null, <<"g","1">>}, link : {Null, <<"u","1">>}, ver : {1, 2}] :
        e.id # Null \/ e.link # Null}
    \cup {[id |-> Null, link |-> Null, ver |-> 0]}

SourceTag == <<"o","f","g","e","m">>

\* collect_items: the item dict yielded for an entry
CollectItem(e) ==
    LET title == Strip(Version(e.ver).title)
    IN  [source |-> SourceTag,
         link |-> e.link,
         guid |-> Or(e.id, Or(e.link, title)),
         title |-> title,
         published_at |-> Version(e.ver).published,
         content |-> Version(e.ver).content,
         tags |-> Upper(SourceTag)]

\* _iso_now()
Now == <<"n","o","w">>
Unknown == <<"U","N","K","N","O","W","N">>

\* run: the payload of the loop body for an item whose guid is not stored
RunPayload(item, guid) ==
    LET title == Strip(Or(item.title, <<>>))
        source == Strip(Or(item.source, <<>>))
        fulltext == Or(item.content, <<>>)
        st == summarise_and_tag(fulltext, title, source)
        stripped == {Strip(st.tags[i]) : i \in 1..Len(st.tags)} \ {<<>>}
    IN  [guid |-> guid,
         source |-> Or(source, Unknown),
         title |-> title,
         link |-> Or(item.link, <<>>),
         content |-> fulltext,
         summary |-> st.summary,
         published_at |-> Or(item.published_at, Now),
         tags |-> Sorted(stripped)]

\* what the loop body computes for one entry: the guid it works with, the
\* payload it builds and the columns upsert_item stores for it
EntryWork(e) ==
    LET item == CollectItem(e)
        guid == Or(item.guid, item.link)
    IN  [guid |-> guid, payload |-> RunPayload(item, guid),
         stored |-> Payload(RunPayload(item, guid))]

\* the same, tabulated once per entry
FeedTable == {<<e, EntryWork(e)>> : e \in FeedEntries}
FeedWork == [e \in FeedEntries |-> (CHOOSE p \in FeedTable : p[1] = e)[2]]

NoEntry == [id |-> Null, link |-> Null, ver |-> 3]
NoRecord == [entry |-> NoEntry, again |-> FALSE]
Fed(g, e) == [lastFed EXCEPT ![g] = [entry |-> e, again |-> lastFed[g] # NoRecord]]
NoWrite == [by |-> "none", rec |-> NoEntry, conflict |-> FALSE, same |-> FALSE, after |-> 0]
\* the record of an upsert_item call: who called, with what, whether the
\* statement met a stored row with the same guid, whether that row held the
\* columns the call stores, and how many summary requests were answered before
Wrote(g, by, rec, stored) ==
    [lastWrite EXCEPT ![g] = [by |-> by, rec |-> rec, conflict |-> RowIdx(g) # {},
                              same |-> \E i \in RowIdx(g) : Fields(items[i]) = stored,
                              after |-> Len(reqLog)]]

\* run, lines 31-73, with no cutoff (days_since unset): guid, the two skips,
\* summarise_and_tag and the payload
FeedCheck(r, e) ==
    LET guid == FeedWork[e].guid
    IN  /\ runPc[r] = "idle"
        /\ IF ~Truthy(guid)
           THEN UNCHANGED <<runPc, runItem, lastFed>>
           ELSE IF exists(guid)
           THEN /\ lastFed' = Fed(guid, e)
                /\ UNCHANGED <<runPc, runItem>>
           ELSE /\ runPc' = [runPc EXCEPT ![r] = "checked"]
                /\ runItem' = [runItem EXCEPT ![r] = e]
                /\ UNCHANGED lastFed
        /\ UNCHANGED <<items, lastWrite, genVars, scVars, sumVars, linkVars, fnVars, netVars, seedVars, jobVars>>

\* run, lines 75-78: db.upsert_item(payload) returns
FeedUpsert(r) ==
    LET e == runItem[r]
    IN  /\ runPc[r] = "checked"
        /\ items' = upsert_item(items, FeedWork[e].payload)
        /\ lastWrite' = Wrote(FeedWork[e].guid, "feed", e, FeedWork[e].stored)
        /\ lastFed' = Fed(FeedWork[e].guid, e)
        /\ runPc' = [runPc EXCEPT ![r] = "idle"]
        /\ UNCHANGED <<runItem, genVars, scVars, sumVars, linkVars, fnVars, netVars, seedVars, jobVars>>

\* run, lines 79-81: db.upsert_item(payload) raises, the item counts as failed
FeedUpsertFails(r) ==
    /\ runPc[r] = "checked"
    /\ runPc' = [runPc EXCEPT ![r] = "idle"]
    /\ UNCHANGED <<items, runItem, lastFed, lastWrite, genVars, scVars, sumVars, linkVars, fnVars, netVars, seedVars, jobVars>>

\* the cards of a listing page: link, title and date, and the type label
Cards == {[link |-> <<"u","1">>, ver |-> v, type |-> t] :
            v \in {1, 2}, t \in {<<>>, <<"G","u","i","d","e">>}}
PublicationsSource == <<"O","f","g","e","m"," ","P","u","b","l","i","c","a","t","i","o","n","s">>
SmallScaleTag == <<"S","m","a","l","l","-","s","c","a","l","e"," ","g","e","n","e","r","a","t","i","o","n">>

\* scrape_ofgem_publications, lines 238-261: the item built for a card of a
\* "small-scale" start URL, fetch_detail off
CardItem(c) ==
    [guid |-> c.link,
     source |-> PublicationsSource,
     title |-> Strip(Version(c.ver).title),
     link |-> c.link,
     content |-> <<>>,
     summary |-> <<>>,
     published_at |-> Or(Version(c.ver).published, <<>>),
     tags |-> (IF Truthy(c.type) THEN <<c.type>> ELSE <<>>) \o <<SmallScaleTag>>]

CardTable == {<<c, CardItem(c)>> : c \in Cards}
CardWork == [c \in Cards |-> (CHOOSE p \in CardTable : p[1] = c)[2]]

\* the columns the write recorded in lastWrite stored
Written(w) ==
    IF w.by = "feed" THEN FeedWork[w.rec].stored ELSE Payload(CardWork[w.rec])

\* scrape_ofgem_publications, lines 263-265: db.upsert_item(item) for a card,
\* with no exists() check before it
CrawlUpsert(c) ==
    /\ items' = upsert_item(items, CardWork[c])
    /\ lastWrite' = Wrote(c.link, "card", c, Payload(CardWork[c]))
    /\ UNCHANGED <<runPc, runItem, lastFed, genVars, scVars, sumVars, linkVars, fnVars, netVars, seedVars, jobVars>>

Init ==
    /\ items = <<>>
    /\ runPc = [r \in Runs |-> "idle"]
    /\ runItem = [r \in Runs |-> NoEntry]
    /\ lastFed = [g \in Guids |-> NoRecord]
    /\ lastWrite = [g \in Guids |-> NoWrite]
    /\ GenIdle /\ ScIdle /\ SumIdle /\ LinkIdle /\ FnIdle /\ NetIdle /\ SeedIdle /\ JobIdle

Next ==
    \/ \E r \in Runs, e \in FeedEntries : FeedCheck(r, e)
    \/ \E r \in Runs : FeedUpsert(r)
    \/ \E r \in Runs : FeedUpsertFails(r)
    \/ \E c \in Cards : CrawlUpsert(c)

Spec == Init /\ [][Next]_vars

(***************************************************************************)
(* SpecBatch: one ingestion process after the other (main.py run, then the *)
(* crawler), with the three counters of run, store writes that fail, and   *)
(* processes that are killed and started again on the same sources         *)
(***************************************************************************)
MaxFeedLen == 2   \* most feed entries the sources of SpecBatch hold
MaxCardLen == 1   \* most listing cards they hold
MaxKills == 1     \* most processes killed in a behaviour of SpecBatch

BatchEntries ==
    {[id |-> <<"g","1">>, link |-> <<"u","1">>, ver |-> 1],
     [id |-> Null, link |-> <<"u","1">>, ver |-> 2],
     [id |-> <<"g","1">>, link |-> Null, ver |-> 2],
     [id |-> Null, link |-> Null, ver |-> 0]}
BatchCards ==
    {[link |-> <<"u","1">>, ver |-> 1, type |-> <<>>],
     [link |-> <<"u","1">>, ver |-> 2, type |-> <<"G","u","i","d","e">>]}

SeqsUpTo(S, n) == UNION {[1..k -> S] : k \in 0..n}

\* DB.exists on a given state of the table
exists_in(tbl, guid_or_link) ==
    \E i \in 1..Len(tbl) : tbl[i].guid = guid_or_link \/ tbl[i].link = guid_or_link

\* run, lines 31-78: does the loop body reach db.upsert_item for this entry
\* (days_since unset)
ReachesUpsert(tbl, e) ==
    Truthy(FeedWork[e].guid) /\ ~exists_in(tbl, FeedWork[e].guid)

\* run, lines 31-78: the table after the loop body for one entry, the write
\* succeeding
run_item(tbl, e) ==
    IF ReachesUpsert(tbl, e) THEN upsert_item(tbl, FeedWork[e].payload) ELSE tbl

\* the table after the loop of run over the entries, every write succeeding
RECURSIVE run_items(_, _)
run_items(tbl, entries) ==
    IF entries = <<>> THEN tbl
    ELSE run_items(run_item(tbl, Head(entries)), Tail(entries))

\* the table after the loop of the crawler over the cards, every write succeeding
RECURSIVE crawl_cards(_, _)
crawl_cards(tbl, cards) ==
    IF cards = <<>> THEN tbl
    ELSE crawl_cards(upsert_item(tbl, CardWork[Head(cards)]), Tail(cards))

\* the table a process that is not disturbed leaves
run(tbl, src) == crawl_cards(run_items(tbl, src.entries), src.cards)

ZeroTally == [saved |-> 0, skipped |-> 0, failed |-> 0]
ZeroCrawlTally == [kept |-> 0, skipped |-> 0]
\* inherited: the rows the process found in the table
NewProcess(killed, everFailed, inherited) ==
    [handled |-> 0, writeFails |-> 0, killed |-> killed, everFailed |-> everFailed,
     inherited |-> inherited]
Handled(failed) ==
    [batchHist EXCEPT !.handled = @ + 1,
                      !.writeFails = IF failed THEN @ + 1 ELSE @,
                      !.everFailed = @ \/ failed]
Counted(t, field) == [t EXCEPT ![field] = @ + 1]

InitBatch ==
    /\ batchIn \in [entries : SeqsUpTo(BatchEntries, MaxFeedLen),
                    cards : SeqsUpTo(BatchCards, MaxCardLen)]
    /\ batchPos = 1
    /\ tally = ZeroTally
    /\ crawlTally = ZeroCrawlTally
    /\ batchHist = NewProcess(0, FALSE, 0)
    /\ items = <<>>
    /\ GenIdle /\ ScIdle /\ RunIdle /\ SumIdle /\ LinkIdle /\ FnIdle /\ NetIdle /\ SeedIdle /\ TxIdle /\ RaceIdle

\* run, lines 31-81: the loop body for the next entry; raises: db.upsert_item
\* raises, which the except of lines 79-81 counts
BatchFeed(raises) ==
    /\ batchPos \in 1..Len(batchIn.entries)
    /\ LET e == batchIn.entries[batchPos]
           writes == ReachesUpsert(items, e)
       IN  /\ raises => writes
           /\ items' = IF raises THEN items ELSE run_item(items, e)
           /\ tally' = Counted(tally, IF ~writes THEN "skipped"
                                      ELSE IF raises THEN "failed" ELSE "saved")
           /\ batchHist' = Handled(raises)
    /\ batchPos' = batchPos + 1
    /\ UNCHANGED <<batchIn, crawlTally, genVars, scVars, runVars, sumVars, linkVars, fnVars, netVars, seedVars, txVars, raceVars>>

\* scrape_ofgem_publications, lines 232-268: the loop body for the next card,
\* since None so that _should_keep holds; raises: db.upsert_item raises, which
\* the except of lines 266-268 prints and counts
BatchCard(raises) ==
    /\ batchPos \in Len(batchIn.entries) + 1..Len(batchIn.entries) + Len(batchIn.cards)
    /\ LET c == batchIn.cards[batchPos - Len(batchIn.entries)]
       IN  /\ items' = IF raises THEN items ELSE upsert_item(items, CardWork[c])
           /\ crawlTally' = Counted(crawlTally, IF raises THEN "skipped" ELSE "kept")
           /\ batchHist' = Handled(raises)
    /\ batchPos' = batchPos + 1
    /\ UNCHANGED <<batchIn, tally, genVars, scVars, runVars, sumVars, linkVars, fnVars, netVars, seedVars, txVars, raceVars>>

\* run, lines 85-92: the crawler returns (kept, skipped), run adds them to
\* saved and skipped and prints the three counters
BatchDone ==
    /\ batchPos = Len(batchIn.entries) + Len(batchIn.cards) + 1
    /\ tally' = [tally EXCEPT !.saved = @ + crawlTally.kept,
                              !.skipped = @ + crawlTally.skipped]
    /\ batchPos' = 0
    /\ UNCHANGED <<batchIn, crawlTally, batchHist, items, genVars, scVars, runVars, sumVars, linkVars, fnVars, netVars, seedVars, txVars, raceVars>>

\* the process is killed between two statements of the store and a new one is
\* started on the same sources: the counters start again, the table is kept
BatchKill ==
    /\ batchPos >= 1
    /\ batchHist.killed < MaxKills
    /\ batchPos' = 1
    /\ tally' = ZeroTally
    /\ crawlTally' = ZeroCrawlTally
    /\ batchHist' = NewProcess(batchHist.killed + 1, batchHist.everFailed, Len(items))
    /\ UNCHANGED <<batchIn, items, genVars, scVars, runVars, sumVars, linkVars, fnVars, netVars, seedVars, txVars, raceVars>>

NextBatch ==
    \/ \E raises \in BOOLEAN : BatchFeed(raises)
    \/ \E raises \in BOOLEAN : BatchCard(raises)
    \/ BatchDone
    \/ BatchKill

SpecBatch == InitBatch /\ [][NextBatch]_vars

(***************************************************************************)
(* SpecCutoff: the date cutoff of the two ingestion paths (main.py run,    *)
(* scraper/ofgem_publications.py _should_keep), one candidate at a time    *)
(***************************************************************************)
DigitSeq == <<"0","1","2","3","4","5","6","7","8","9">>
DigitVal(c) == (CHOOSE i \in 1..10 : DigitSeq[i] = c) - 1
\* int() of a string of digits
RECURSIVE IntOf(_)
IntOf(s) == IF s = <<>> THEN 0 ELSE 10 * IntOf(SubSeq(s, 1, Len(s) - 1)) + DigitVal(s[Len(s)])
AllDigits(s) == \A i \in 1..Len(s) : s[i] \in Digits

UtcOffset == <<"+","0","0",":","0","0">>
\* s.replace("Z", "+00:00")
RECURSIVE ReplaceZ(_)
ReplaceZ(s) ==
    IF s = <<>> THEN <<>>
    ELSE (IF Head(s) = "Z" THEN UtcOffset ELSE <<Head(s)>>) \o ReplaceZ(Tail(s))

DaysIn(y, m) ==
    IF m = 2 THEN (IF y % 4 = 0 /\ (y % 100 # 0 \/ y % 400 = 0) THEN 29 ELSE 28)
    ELSE IF m \in {4, 6, 9, 11} THEN 30 ELSE 31

Unparsed == [ok |-> FALSE, aware |-> FALSE, day |-> 0, secs |-> 0]
\* YYYY-MM-DD at the start of s
IsoDate(s) ==
    IF /\ Len(s) >= 10 /\ s[5] = "-" /\ s[8] = "-"
       /\ AllDigits(SubSeq(s, 1, 4)) /\ AllDigits(SubSeq(s, 6, 7)) /\ AllDigits(SubSeq(s, 9, 10))
    THEN LET y == IntOf(SubSeq(s, 1, 4))
             m == IntOf(SubSeq(s, 6, 7))
             d == IntOf(SubSeq(s, 9, 10))
         IN  IF y >= 1 /\ m \in 1..12 /\ d \in 1..DaysIn(y, m)
             THEN [ok |-> TRUE, aware |-> FALSE, day |-> (y * 100 + m) * 100 + d, secs |-> 0]
             ELSE Unparsed
    ELSE Unparsed
\* Thh:mm:ss
IsoTime(s) ==
    IF /\ Len(s) = 9 /\ s[1] = "T" /\ s[4] = ":" /\ s[7] = ":"
       /\ AllDigits(SubSeq(s, 2, 3)) /\ AllDigits(SubSeq(s, 5, 6)) /\ AllDigits(SubSeq(s, 8, 9))
       /\ IntOf(SubSeq(s, 2, 3)) < 24 /\ IntOf(SubSeq(s, 5, 6)) < 60 /\ IntOf(SubSeq(s, 8, 9)) < 60
    THEN [ok |-> TRUE,
          secs |-> (IntOf(SubSeq(s, 2, 3)) * 60 + IntOf(SubSeq(s, 5, 6))) * 60 + IntOf(SubSeq(s, 8, 9))]
    ELSE [ok |-> FALSE, secs |-> 0]

\* datetime.fromisoformat on the timestamps of the model: a date, a date and a
\* time, or a date and a time with the offset +00:00; anything else raises
\* ValueError (ok FALSE)
fromisoformat(s) ==
    LET date == IsoDate(s)
        rest == SubSeq(s, 11, Len(s))
        aware == Len(rest) = 15 /\ SubSeq(rest, 10, 15) = UtcOffset
        time == IsoTime(SubSeq(rest, 1, Min(9, Len(rest))))
    IN  IF ~date.ok THEN Unparsed
        ELSE IF rest = <<>> THEN date
        ELSE IF time.ok /\ (Len(rest) = 9 \/ aware)
             THEN [date EXCEPT !.aware = aware, !.secs = time.secs]
             ELSE Unparsed

\* since_dt = None, a cutoff being <<datetime>>
None == <<>>

\* a < b on datetimes; comparing a naive with an aware one raises TypeError
Comparable(a, b) == a.aware = b.aware
Before(a, b) == a.day < b.day \/ (a.day = b.day /\ a.secs < b.secs)

\* run, lines 38-45: is the item skipped for its date
older_than_since(published_at, since_dt) ==
    IF since_dt # None /\ Truthy(published_at)
    THEN LET pub == fromisoformat(ReplaceZ(published_at))
         IN  IF ~pub.ok \/ ~Comparable(pub, since_dt[1])
             THEN FALSE
             ELSE Before(pub, since_dt[1])
    ELSE FALSE

\* _should_keep with a malformed date dropped
should_keep_Strict(published_iso, since_dt) ==
    IF since_dt = None THEN TRUE
    ELSE IF ~Truthy(published_iso) THEN TRUE
    ELSE LET dt == fromisoformat(ReplaceZ(published_iso))
         IN  dt.ok /\ Comparable(dt, since_dt[1]) /\ ~Before(dt, since_dt[1])

\* _should_keep
should_keep(published_iso, since_dt) ==
    IF since_dt = None THEN TRUE
    ELSE IF ~Truthy(published_iso) THEN TRUE
    ELSE LET dt == fromisoformat(ReplaceZ(published_iso))
         IN  IF ~dt.ok \/ ~Comparable(dt, since_dt[1])
             THEN TRUE
             ELSE ~Before(dt, since_dt[1])

\* datetime.now(timezone.utc) - timedelta(days=days_since): an aware datetime,
\* here in the afternoon of 15 June 2024 and of 1 March 2023
Sinces ==
    {None,
     <<[ok |-> TRUE, aware |-> TRUE, day |-> 20240615, secs |-> 45000]>>,
     <<[ok |-> TRUE, aware |-> TRUE, day |-> 20230301, secs |-> 45000]>>}

\* dates of candidates: none, aware ones before, on the day of and after the
\* cutoffs, naive ones, and text that is no ISO timestamp
AwareDates ==
    {<<"2","0","2","3","-","0","1","-","3","1","T","0","0",":","0","0",":","0","0","Z">>,
     <<"2","0","2","3","-","0","3","-","0","1","T","0","0",":","0","0",":","0","0","Z">>,
     <<"2","0","2","4","-","0","6","-","1","5","T","1","2",":","2","9",":","5","9","+","0","0",":","0","0">>,
     <<"2","0","2","4","-","0","6","-","1","5","T","2","3",":","5","9",":","5","9","Z">>,
     <<"2","0","2","5","-","0","1","-","0","1","T","0","0",":","0","0",":","0","0","Z">>,
     <<"2","0","2","4","-","0","6","-","1","5","T","1","2",":","3","0",":","0","0","Z">>}
NaiveDates ==
    {<<"2","0","2","3","-","0","1","-","3","1">>,
     <<"2","0","2","3","-","0","1","-","3","1","T","0","0",":","0","0",":","0","0">>}
MalformedDates ==
    {<<"2","0","2","3","-","1","3","-","0","1","T","0","0",":","0","0",":","0","0","Z">>,
     <<"2","0","2","3","-","0","2","-","2","9","T","0","0",":","0","0",":","0","0","Z">>,
     <<"3","1"," ","J","a","n"," ","2","0","2","3">>,
     <<"2","0","2","3","-","0","1","-","3","1","T","0","0",":","0","0",":","0","0","Z","Z">>}
CutoffDates == {Null, <<>>} \cup AwareDates \cup NaiveDates \cup MalformedDates

InitCutoff ==
    /\ fnIn \in [path : {"feed", "crawl"}, published : CutoffDates, since : Sinces]
    /\ fnOut = <<>>
    /\ GenIdle /\ ScIdle /\ DbIdle /\ RunIdle /\ SumIdle /\ LinkIdle /\ NetIdle /\ SeedIdle /\ JobIdle

\* run: the cutoff of the feed loop for one item
CutoffFeed ==
    /\ fnOut = <<>>
    /\ fnIn.path = "feed"
    /\ fnOut' = <<[dropped |-> older_than_since(fnIn.published, fnIn.since)]>>
    /\ UNCHANGED <<fnIn, genVars, scVars, dbVars, runVars, sumVars, linkVars, netVars, seedVars, jobVars>>

\* scrape_ofgem_publications, lines 233-235: the cutoff of the crawler for one card
CutoffCrawl ==
    /\ fnOut = <<>>
    /\ fnIn.path = "crawl"
    /\ fnOut' = <<[dropped |-> ~should_keep(fnIn.published, fnIn.since)]>>
    /\ UNCHANGED <<fnIn, genVars, scVars, dbVars, runVars, sumVars, linkVars, netVars, seedVars, jobVars>>

NextCutoff == CutoffFeed \/ CutoffCrawl

SpecCutoff == InitCutoff /\ [][NextCutoff]_vars

(***************************************************************************)
(* SpecClean: one call of clean_extracted_text (api/ai_summary.py; the     *)
(* copies in tools/ai_utils.py and api/server.py are the same code)        *)
(***************************************************************************)
MaxCleanParts == 3  \* most parts a text of SpecClean is made of
LongLineLen == 100  \* length of the long line of SpecClean
MinCleanedLen == 200
TinyLineLen == 3
ShortLineLen == 18
DefaultMaxChars == 12000

\* the phrases _BP_REGEX matches, its optional parts written out
BoilerplatePhrases ==
    {<<"s","k","i","p"," ","t","o"," ","c","o","n","t","e","n","t">>,
     <<"s","k","i","p"," ","t","o"," ","m","a","i","n"," ","c","o","n","t","e","n","t">>,
     <<"n","a","v","i","g","a","t","i","o","n">>,
     <<"m","a","i","n"," ","n","a","v","i","g","a","t","i","o","n">>,
     <<"s","h","o","w","/","h","i","d","e"," ","m","e","n","u">>,
     <<"s","h","o","w","h","i","d","e"," ","m","e","n","u">>,
     <<"t","o","g","g","l","e"," ","m","e","n","u">>,
     <<"s","i","g","n"," ","i","n">>,
     <<"r","e","g","i","s","t","e","r">>,
     <<"l","o","g","i","n">>,
     <<"l","o","g"," ","i","n">>,
     <<"l","o","g","o","u","t">>,
     <<"l","o","g"," ","o","u","t">>,
     <<"s","e","a","r","c","h">>,
     <<"s","e","a","r","c","h"," ","r","e","s","u","l","t","s">>,
     <<"r","e","s","e","t"," ","b","u","t","t","o","n"," ","i","n"," ","s","e","a","r","c","h">>,
     <<"c","o","o","k","i","e"," ","b","a","n","n","e","r">>,
     <<"c","o","o","k","i","e","s"," ","b","a","n","n","e","r">>,
     <<"c","o","o","k","i","e"," ","s","e","t","t","i","n","g","s">>,
     <<"c","o","o","k","i","e","s"," ","s","e","t","t","i","n","g","s">>,
     <<"c","o","o","k","i","e"," ","p","r","e","f","e","r","e","n","c","e","s">>,
     <<"c","o","o","k","i","e","s"," ","p","r","e","f","e","r","e","n","c","e","s">>,
     <<"a","c","c","e","p","t"," ","a","l","l"," ","c","o","o","k","i","e","s">>,
     <<"u","s","e","r"," ","a","c","c","o","u","n","t"," ","m","e","n","u">>,
     <<"f","o","o","t","e","r">>,
     <<"s","h","a","r","e"," ","p","a","g","e">>,
     <<"s","h","a","r","e"," ","t","h","i","s"," ","p","a","g","e">>,
     <<"r","e","l","a","t","e","d"," ","c","o","n","t","e","n","t">>,
     <<"r","e","l","a","t","e","d"," ","l","i","n","k","s">>,
     <<"d","a","t","a"," ","p","o","r","t","a","l">>}

\* \w
IsWordChar(c) == IsAlnum(c) \/ c = "_"

\* _BP_REGEX.search(ln): a phrase, in any case, between two word boundaries
BpSearch(ln) ==
    LET low == Lower(ln)
    IN  \E ph \in BoilerplatePhrases :
            \E i \in 0..(Len(low) - Len(ph)) :
                /\ SubSeq(low, i + 1, i + Len(ph)) = ph
                /\ (i = 0 \/ ~IsWordChar(low[i]))
                /\ (i + Len(ph) = Len(low) \/ ~IsWordChar(low[i + Len(ph) + 1]))

\* the characters of s, each with its position
Indexed(s) == [i \in 1..Len(s) |-> [c |-> s[i], i |-> i]]

\* re.sub(r"[ \t]+", " ", text): of a run of blanks the last one stays, as a
\* space
CollapseBlanks(s) ==
    LET blank(c) == c \in {" ", "\t"}
        kept == SelectSeq(Indexed(s),
                          LAMBDA p : ~(blank(p.c) /\ p.i < Len(s) /\ blank(s[p.i + 1])))
    IN  [k \in 1..Len(kept) |-> IF blank(kept[k].c) THEN " " ELSE kept[k].c]

\* re.sub(r"\r\n?", "\n", raw): a "\n" right after a "\r" goes, and every
\* "\r" becomes a "\n"
UnixNewlines(s) ==
    LET kept == SelectSeq(Indexed(s),
                          LAMBDA p : ~(p.c = "\n" /\ p.i > 1 /\ s[p.i - 1] = "\r"))
    IN  [k \in 1..Len(kept) |-> IF kept[k].c = "\r" THEN "\n" ELSE kept[k].c]

\* re.sub(r"\n{3,}", "\n\n", cleaned): of a run of newlines the last two stay
SqueezeNewlines(s) ==
    LET kept == SelectSeq(Indexed(s),
                          LAMBDA p : ~(/\ p.i + 2 <= Len(s)
                                       /\ p.c = "\n" /\ s[p.i + 1] = "\n" /\ s[p.i + 2] = "\n"))
    IN  [k \in 1..Len(kept) |-> kept[k].c]

RECURSIVE JoinLines(_)
\* "\n".join(kept)
JoinLines(ls) ==
    IF ls = <<>> THEN <<>>
    ELSE IF Len(ls) = 1 THEN ls[1]
    ELSE ls[1] \o <<"\n">> \o JoinLines(Tail(ls))

LineEnds == {".", ":", "?", "!", Ellipsis}

\* clean_extracted_text, lines 54-78: what is left of the text once the empty,
\* boilerplate, short and title lines are dropped
CleanedLines(title, text) ==
    LET raw == UnixNewlines(CollapseBlanks(text))
        split == SplitOn(raw, "\n")
        lines == [i \in 1..Len(split) |-> Strip(split[i])]
        ttl == Strip(title)
        keep(ln) ==
            /\ ln # <<>>
            /\ ~BpSearch(ln)
            /\ Len(ln) > TinyLineLen
            /\ ~(Len(ln) <= ShortLineLen /\ ln[Len(ln)] \notin LineEnds)
            /\ ~(ttl # <<>> /\ Lower(ln) = Lower(ttl))
    IN  Strip(SqueezeNewlines(JoinLines(SelectSeq(lines, keep))))

\* the function without the return to the trimmed original
clean_extracted_text_NoFallback(title, text, max_chars) ==
    LET cleaned == CleanedLines(title, text)
    IN  IF text = <<>> THEN text
        ELSE IF Len(cleaned) > max_chars THEN SliceTo(cleaned, max_chars) ELSE cleaned

\* clean_extracted_text
clean_extracted_text(title, text, max_chars) ==
    LET kept == CleanedLines(title, text)
        cleaned == IF Len(kept) < MinCleanedLen THEN Strip(text) ELSE kept
    IN  IF text = <<>> THEN text
        ELSE IF Len(cleaned) > max_chars THEN SliceTo(cleaned, max_chars) ELSE cleaned

LongLine == [i \in 1..LongLineLen |-> IF i = LongLineLen THEN "." ELSE "x"]
CleanTitle == <<"T","i","t","l","e"," ","o","f"," ","t","h","e"," ","i","t","e","m",".">>
CleanParts ==
    {LongLine, <<"\n">>, <<"\r","\n">>, <<" ","\t"," ">>,
     <<"A","c","c","e","p","t"," ","a","l","l"," ","c","o","o","k","i","e","s",","," ","p","l","e","a","s","e",".">>,
     <<" ","t","i","t","l","e"," ","o","f"," ","t","h","e"," ","I","t","e","m",".">>}
CleanTexts == {Concat(ps) : ps \in StrUpTo(CleanParts, MaxCleanParts)}
CleanMaxChars == {0, 50, 250}

InitClean ==
    /\ fnIn \in [title : {<<>>, CleanTitle}, text : CleanTexts, max_chars : CleanMaxChars]
    /\ fnOut = <<>>
    /\ GenIdle /\ ScIdle /\ DbIdle /\ RunIdle /\ SumIdle /\ LinkIdle /\ NetIdle /\ SeedIdle /\ JobIdle

Clean ==
    /\ fnOut = <<>>
    /\ fnOut' = <<[out |-> clean_extracted_text(fnIn.title, fnIn.text, fnIn.max_chars)]>>
    /\ UNCHANGED <<fnIn, genVars, scVars, dbVars, runVars, sumVars, linkVars, netVars, seedVars, jobVars>>

NextClean == Clean

SpecClean == InitClean /\ [][NextClean]_vars

(***************************************************************************)
(* SpecFilter: one call of _passes_filters (scraper/ofgem.py)              *)
(***************************************************************************)
MaxBodyParts == 2   \* most parts a body of SpecFilter is made of

RegexPrefix == <<"r","e",":">>
\* the regular expressions of the filter tables: P\d{3}\b of "elexon", and
\* one that does not compile
PModRegex == <<"P","\\","d","{","3","}","\\","b">>
BadRegex == <<"(">>

StartsWith(s, pre) == Len(s) >= Len(pre) /\ SubSeq(s, 1, Len(pre)) = pre

\* re.search(pat, blob, flags=re.IGNORECASE)
ReSearch(pat, blob) ==
    CASE pat = PModRegex ->
            \E i \in 1..(Len(blob) - 3) :
                /\ blob[i] \in {"p", "P"}
                /\ \A k \in 1..3 : blob[i + k] \in Digits
                /\ (i + 3 = Len(blob) \/ ~IsWordChar(blob[i + 4]))
      [] pat = BadRegex -> FALSE

\* _match
match(pattern, blob) ==
    IF StartsWith(pattern, RegexPrefix) \/ StartsWith(pattern, Upper(RegexPrefix))
    THEN ReSearch(SubSeq(pattern, Len(RegexPrefix) + 1, Len(pattern)), blob)
    ELSE Contains(Lower(pattern), blob)

NoFilter == [include |-> <<>>, exclude |-> <<>>]
SrcIco == <<"i","c","o">>
SrcElexon == <<"e","l","e","x","o","n">>
SrcEna == <<"e","n","a">>
SrcDcodeMods == <<"d","c","o","d","e","_","m","o","d","s","_","h","t","m","l">>

\* FILTERS, its entries "ico", "elexon" and "ena" (the first four, the last
\* two and the first two patterns of their lists)
FILTERS ==
    [src \in {SrcIco, SrcElexon, SrcEna} |->
        CASE src = SrcIco ->
                [include |-> <<<<"b","r","e","a","c","h">>, <<"s","e","c","u","r","i","t","y">>, <<"i","n","c","i","d","e","n","t">>, <<"g","u","i","d","a","n","c","e">>>>,
                 exclude |-> <<<<"j","o","b">>, <<"v","a","c","a","n","c","y">>, <<"p","o","d","c","a","s","t">>, <<"w","e","b","i","n","a","r">>, <<"e","v","e","n","t">>>>]
          [] src = SrcElexon ->
                [include |-> <<<<"c","h","a","n","g","e"," ","p","r","o","p","o","s","a","l">>, <<"r","e",":","P","\\","d","{","3","}","\\","b">>>>,
                 exclude |-> <<>>]
          [] src = SrcEna ->
                [include |-> <<<<"e","n","g","i","n","e","e","r","i","n","g"," ","r","e","c","o","m","m","e","n","d","a","t","i","o","n">>, <<"e","r"," ","p","2">>>>,
                 exclude |-> <<>>]]

\* a table whose entries have no include list, an exclude pattern in upper
\* case, and a regular expression that does not compile
OtherFilters ==
    [src \in {SrcIco, SrcElexon} |->
        CASE src = SrcIco -> [include |-> <<>>, exclude |-> <<<<"J","O","B">>>>]
          [] src = SrcElexon ->
                [include |-> <<Upper(RegexPrefix) \o PModRegex, RegexPrefix \o BadRegex>>,
                 exclude |-> <<<<"j","o","b">>>>]]

AnyOf(patterns, blob) == \E i \in 1..Len(patterns) : match(patterns[i], blob)

\* the function that looks at the include list only
passes_filters_IncludeOnly(bypass, filters, source, title, body) ==
    LET cfg == IF source \in DOMAIN filters THEN filters[source] ELSE NoFilter
        blob == Lower(title \o <<"\n">> \o body)
    IN  bypass \/ cfg.include = <<>> \/ AnyOf(cfg.include, blob)

\* _passes_filters, with BYPASS and FILTERS as arguments
passes_filters(bypass, filters, source, title, body) ==
    LET cfg == IF source \in DOMAIN filters THEN filters[source] ELSE NoFilter
        inc == cfg.include
        exc == cfg.exclude
        blob == Lower(title \o <<"\n">> \o body)
    IN  IF bypass THEN TRUE
        ELSE IF inc # <<>> /\ ~AnyOf(inc, blob) THEN FALSE
        ELSE IF exc # <<>> /\ AnyOf(exc, blob) THEN FALSE
        ELSE TRUE

FilterTitles == {<<>>, <<"S","e","c","u","r","i","t","y"," ","B","r","e","a","c","h">>, <<"J","o","b","s">>}
FilterParts == {<<"P","1","2","3">>, <<"p","1","2">>, <<"4">>, <<"W","e","b","i","n","a","r">>, <<"E","R"," ","P","2">>, <<" ">>}
FilterBodies == {Concat(ps) : ps \in StrUpTo(FilterParts, MaxBodyParts)}

InitFilter ==
    /\ fnIn \in [bypass : BOOLEAN, filters : {FILTERS, OtherFilters},
                 source : {SrcIco, SrcElexon, SrcEna, SrcDcodeMods},
                 title : FilterTitles, body : FilterBodies]
    /\ fnOut = <<>>
    /\ GenIdle /\ ScIdle /\ DbIdle /\ RunIdle /\ SumIdle /\ LinkIdle /\ NetIdle /\ SeedIdle /\ JobIdle

PassesFilters ==
    /\ fnOut = <<>>
    /\ fnOut' = <<[passes |-> passes_filters(fnIn.bypass, fnIn.filters, fnIn.source,
                                            fnIn.title, fnIn.body)]>>
    /\ UNCHANGED <<fnIn, genVars, scVars, dbVars, runVars, sumVars, linkVars, netVars, seedVars, jobVars>>

NextFilter == PassesFilters

SpecFilter == InitFilter /\ [][NextFilter]_vars

(***************************************************************************)
(* SpecFetch: one call of _fetch (scraper/ofgem.py), request by request    *)
(***************************************************************************)
DefaultTries == 3
DefaultBackoff == Frac(8, 5)

RECURSIVE FracPow(_, _)
FracPow(x, i) == IF i = 0 THEN Frac(1, 1) ELSE Frac(x.n * FracPow(x, i - 1).n, x.d * FracPow(x, i - 1).d)

\* what requests.get / raise_for_status can raise, and what resp.text can be
FetchErrors == {"ConnectionError", "Timeout", "HTTPError"}
FetchDocs == {"feed", "page"}

\* the argument of time.sleep after the failed attempt i
SleepSeconds_NextPower(backoff, i) == FracPow(backoff, i + 1)
SleepSeconds(backoff, i) == FracPow(backoff, i)

Event(kind, i, val) == [kind |-> kind, i |-> i, val |-> val]

InitFetch ==
    /\ fetchCall \in [tries : {DefaultTries}, backoff : {DefaultBackoff, Frac(2, 1)}]
    /\ fetchI = 0
    /\ fetchPc = "get"
    /\ fetchErr = "None"
    /\ fetchLog = <<>>
    /\ GenIdle /\ ScIdle /\ DbIdle /\ RunIdle /\ SumIdle /\ LinkIdle /\ FnIdle /\ CrawlIdle /\ PipeIdle /\ SeedIdle /\ JobIdle

\* requests.get and raise_for_status succeed: return resp.text
FetchOk(doc) ==
    /\ fetchPc = "get"
    /\ fetchPc' = "returned"
    /\ fetchLog' = Append(fetchLog, Event("ok", fetchI, doc))
    /\ UNCHANGED <<fetchCall, fetchI, fetchErr>>
    /\ UNCHANGED <<genVars, scVars, dbVars, runVars, sumVars, linkVars, fnVars, crawlVars, pipeVars, seedVars, jobVars>>

\* the request raises: last_err = e; sleep unless this was the last attempt,
\* after which the loop ends and last_err is raised
FetchFails(e) ==
    /\ fetchPc = "get"
    /\ fetchErr' = e
    /\ fetchLog' = Append(fetchLog, Event("failed", fetchI, e))
    /\ fetchPc' = IF fetchI < fetchCall.tries - 1 THEN "sleep" ELSE "raised"
    /\ UNCHANGED <<fetchCall, fetchI>>
    /\ UNCHANGED <<genVars, scVars, dbVars, runVars, sumVars, linkVars, fnVars, crawlVars, pipeVars, seedVars, jobVars>>

\* time.sleep(backoff ** i), then the next iteration of the loop
FetchSleep ==
    /\ fetchPc = "sleep"
    /\ fetchLog' = Append(fetchLog, Event("sleep", fetchI, SleepSeconds(fetchCall.backoff, fetchI)))
    /\ fetchI' = fetchI + 1
    /\ fetchPc' = "get"
    /\ UNCHANGED <<fetchCall, fetchErr>>
    /\ UNCHANGED <<genVars, scVars, dbVars, runVars, sumVars, linkVars, fnVars, crawlVars, pipeVars, seedVars, jobVars>>

NextFetch ==
    \/ \E doc \in FetchDocs : FetchOk(doc)
    \/ \E e \in FetchErrors : FetchFails(e)
    \/ FetchSleep

SpecFetch == InitFetch /\ [][NextFetch]_vars

(***************************************************************************)
(* SpecCrawl: scrape_ofgem_publications (scraper/ofgem_publications.py),   *)
(* listing page by listing page.  The cards of a page are upserted as in   *)
(* action CrawlUpsert of Spec; a failing upsert is caught and counted, so  *)
(* the cards have no part in the control flow but their number.            *)
(***************************************************************************)
MaxPages == 3       \* max_pages of the crawl (the code's default is 50)
MaxHrefPage == 2    \* the pages a "next" link of the site can point to: 0..MaxHrefPage
NumStartUrls == 3   \* len(DEFAULT_START_URLS)

\* a URL of the listing of a root; page 0: without page= in its query
Url(root, page) == [root |-> root, page |-> page]
NoHref == [root |-> 0, page |-> 0]
Hrefs(root) == {NoHref} \cup {Url(root, p) : p \in 0..MaxHrefPage}

\* the numbers of cards on a listing page: none, some
CardCounts == {0, 1}

\* what session.get / raise_for_status raise in _get
GetErrors == {"HTTPError", "ConnectionError"}

\* _add_or_set_query(url, page=n)
add_or_set_query(url, n) == [url EXCEPT !.page = n]

\* _find_next_page: the href of the page's "next" link, else ?page=page_num+1
find_next_page(href, current_url, page_num) ==
    IF href # NoHref THEN href ELSE add_or_set_query(current_url, page_num + 1)

\* the test of the page ceiling, without the ceiling
AtCeiling_Never(page, max_pages) == FALSE
\* page >= max_pages
AtCeiling(page, max_pages) == page >= max_pages

Request(page, url, outcome, cards, next) ==
    [page |-> page, url |-> url, outcome |-> outcome, cards |-> cards, next |-> next]

\* break out of the while loop: the next root of start_urls, or return
LeaveRoot(request, why) ==
    /\ crawlLeft' = Append(crawlLeft,
            [pages |-> Len(crawlLog) + 1, why |-> why,
             requests |-> Len(SelectSeq(Append(crawlLog, request),
                                        LAMBDA r : r.page = request.page))])
    /\ crawlLog' = <<>>
    /\ IF crawlRoot < NumStartUrls
       THEN /\ crawlRoot' = crawlRoot + 1
            /\ crawlPage' = 1
            /\ crawlUrl' = Url(crawlRoot + 1, 0)
            /\ crawlPc' = "get"
       ELSE /\ crawlPc' = "done"
            /\ UNCHANGED <<crawlRoot, crawlPage, crawlUrl>>

InitCrawlVars ==
    /\ crawlPc = "get"
    /\ crawlRoot = 1
    /\ crawlPage = 1
    /\ crawlUrl = Url(1, 0)
    /\ crawlLog = <<>>
    /\ crawlLeft = <<>>

InitCrawl ==
    /\ InitCrawlVars
    /\ GenIdle /\ ScIdle /\ DbIdle /\ RunIdle /\ SumIdle /\ LinkIdle /\ FnIdle /\ FetchIdle /\ PipeIdle /\ SeedIdle /\ JobIdle

\* _get raises (one request, no second one): print and break
CrawlGetFails(e) ==
    /\ crawlPc = "get"
    /\ LeaveRoot(Request(crawlPage, crawlUrl, e, 0, NoHref), "fetch failed")
    /\ UNCHANGED <<genVars, scVars, dbVars, runVars, sumVars, linkVars, fnVars, fetchVars, pipeVars, seedVars, jobVars>>

\* _get returns a page with the given number of cards and "next" link
CrawlGetPage(cards, href) ==
    LET next_url == find_next_page(href, crawlUrl, crawlPage)
        request == Request(crawlPage, crawlUrl, "ok", cards, next_url)
    IN  /\ crawlPc = "get"
        /\ IF cards = 0 THEN LeaveRoot(request, "no cards")
           ELSE IF AtCeiling(crawlPage, MaxPages) THEN LeaveRoot(request, "max_pages")
           ELSE IF next_url = NoHref \/ next_url = crawlUrl THEN LeaveRoot(request, "no next page")
           ELSE /\ crawlLog' = Append(crawlLog, request)
                /\ crawlPage' = crawlPage + 1
                /\ crawlUrl' = next_url
                /\ UNCHANGED <<crawlPc, crawlRoot, crawlLeft>>
        /\ UNCHANGED <<genVars, scVars, dbVars, runVars, sumVars, linkVars, fnVars, fetchVars, pipeVars, seedVars, jobVars>>

NextCrawl ==
    \/ \E e \in GetErrors : CrawlGetFails(e)
    \/ \E cards \in CardCounts, href \in Hrefs(crawlRoot) : CrawlGetPage(cards, href)

SpecCrawl == InitCrawl /\ [][NextCrawl]_vars

\* every request of the crawl gets its answer, an error at the latest when
\* its timeout of 30 seconds expires
SpecCrawlFair == SpecCrawl /\ WF_vars(NextCrawl)

(***************************************************************************)
(* SpecRun: run (main.py): the loop over collect_items (scraper/ofgem.py), *)
(* source by source, then the publications crawler, then the summary line. *)
(* What happens to an item in the loop body of run is in Spec.             *)
(***************************************************************************)
SOURCES ==
    <<"ofgem", "desnz", "ea", "hse", "elexon", "dcode_mods_html", "dcode_consults_html",
      "ena_html", "neso_html", "ncsc", "ico", "ico_html", "rea">>

\* what the except clause of a source does with a failed fetch
OnFetchError_Raise == "raise"
OnFetchError == "continue"

\* the next iteration of the loop over SOURCES; after the last one the
\* generator is exhausted and run calls scrape_ofgem_publications
NextSource ==
    /\ hand' = <<>>
    /\ IF srcIdx < Len(SOURCES)
       THEN /\ srcIdx' = srcIdx + 1
            /\ pipePc' = "collect"
            /\ UNCHANGED crawlVars
       ELSE /\ srcIdx' = srcIdx
            /\ pipePc' = "crawl"
            /\ crawlPc' = "get"
            /\ crawlRoot' = 1
            /\ crawlPage' = 1
            /\ crawlUrl' = Url(1, 0)
            /\ crawlLog' = <<>>
            /\ crawlLeft' = <<>>

InitRun ==
    /\ pipePc = "collect"
    /\ srcIdx = 1
    /\ hand = <<>>
    /\ srcLog = <<>>
    /\ srcFailed = 0
    /\ GenIdle /\ ScIdle /\ DbIdle /\ RunIdle /\ SumIdle /\ LinkIdle /\ FnIdle
    /\ FetchIdle /\ CrawlIdle /\ SeedIdle /\ JobIdle

\* the fetch of the source raises (_fetch after its last attempt, or the
\* scraper of an HTML source): "Feed error" / "HTML scrape error", continue.
\* _scrape_ico_news catches the error itself and returns what it has.
CollectFetchFails ==
    /\ pipePc = "collect"
    /\ srcLog' = Append(srcLog, SOURCES[srcIdx])
    /\ srcFailed' = srcFailed + 1
    /\ IF OnFetchError = "continue"
       THEN NextSource
       ELSE /\ pipePc' = "aborted"
            /\ UNCHANGED <<srcIdx, hand, crawlVars>>
    /\ UNCHANGED <<genVars, scVars, dbVars, runVars, sumVars, linkVars, fnVars, fetchVars, seedVars, jobVars>>

\* the fetch of the source returns its entries: none, or none that passes the
\* filters, or one that is yielded to run; the article fetch of an entry
\* without summary text gives "" when it fails (_extract_article)
CollectFetchOk(yields, articleFetched) ==
    /\ pipePc = "collect"
    /\ srcLog' = Append(srcLog, SOURCES[srcIdx])
    /\ IF yields
       THEN /\ hand' = <<[source |-> SOURCES[srcIdx],
                          content |-> IF articleFetched THEN "text" ELSE ""]>>
            /\ pipePc' = "item"
            /\ UNCHANGED <<srcIdx, crawlVars>>
       ELSE NextSource
    /\ UNCHANGED srcFailed
    /\ UNCHANGED <<genVars, scVars, dbVars, runVars, sumVars, linkVars, fnVars, fetchVars, seedVars, jobVars>>

\* the loop body of run for the item in hand (saved, skipped or failed), and
\* the generator resumes after its yield
RunItem ==
    /\ pipePc = "item"
    /\ NextSource
    /\ UNCHANGED <<srcLog, srcFailed>>
    /\ UNCHANGED <<genVars, scVars, dbVars, runVars, sumVars, linkVars, fnVars, fetchVars, seedVars, jobVars>>

\* scrape_ofgem_publications has returned: print the summary line
RunSummary ==
    /\ pipePc = "crawl"
    /\ crawlPc = "done"
    /\ pipePc' = "done"
    /\ UNCHANGED <<srcIdx, hand, srcLog, srcFailed, crawlVars>>
    /\ UNCHANGED <<genVars, scVars, dbVars, runVars, sumVars, linkVars, fnVars, fetchVars, seedVars, jobVars>>

NextRun ==
    \/ CollectFetchFails
    \/ \E yields \in BOOLEAN, articleFetched \in BOOLEAN : CollectFetchOk(yields, articleFetched)
    \/ RunItem
    \/ \E e \in GetErrors : CrawlGetFails(e)
    \/ \E cards \in CardCounts, href \in Hrefs(crawlRoot) : CrawlGetPage(cards, href)
    \/ RunSummary

SpecRun == InitRun /\ [][NextRun]_vars

\* every request ends, with an answer or an error (timeouts of 25 and 30
\* seconds), and the loops of run go on
SpecRunFair == SpecRun /\ WF_vars(NextRun)

(***************************************************************************)
(* SpecSum: the summary requests of the API (POST /api/ai-summary) on a    *)
(* stored table, with the ai_summary column as the cache                   *)
(***************************************************************************)
MaxRequests == 2    \* most summary requests of one behaviour
SummaryLimit == 120

\* _is_boilerplate_summary, its snippets
BadSnippets ==
    {<<"s","k","i","p"," ","t","o"," ","m","a","i","n"," ","c","o","n","t","e","n","t">>,
     <<"u","s","e","r"," ","a","c","c","o","u","n","t"," ","m","e","n","u">>,
     <<"r","e","s","e","t"," ","b","u","t","t","o","n"," ","i","n"," ","s","e","a","r","c","h">>,
     <<"d","a","t","a"," ","p","o","r","t","a","l">>,
     <<"s","i","g","n"," ","i","n"," ","/"," ","r","e","g","i","s","t","e","r">>,
     <<"s","h","o","w","/","h","i","d","e"," ","m","e","n","u">>,
     <<"m","a","i","n"," ","n","a","v","i","g","a","t","i","o","n">>,
     <<"c","o","o","k","i","e","s">>}

\* _is_boilerplate_summary
is_boilerplate_summary(text) ==
    IF ~Truthy(text) THEN TRUE
    ELSE LET t == Strip(Lower(text))
         IN  \E snip \in BadSnippets : Contains(snip, t)

PdfMarker == <<"[","P","D","F"," ","d","o","c","u","m","e","n","t">>
PdfSuffix == <<".","p","d","f">>
\* _is_pdf_link, for a link without query or fragment
is_pdf_link(url) ==
    LET path == Lower(url)
    IN  Len(path) >= Len(PdfSuffix)
        /\ SubSeq(path, Len(path) - Len(PdfSuffix) + 1, Len(path)) = PdfSuffix

PdfNoTextMessage == <<"T","h","i","s"," ","P","D","F"," ","a","p","p","e","a","r","s"," ","t","o"," ","b","e"," ","i","m","a","g","e","-","b","a","s","e","d"," ","o","r"," ","h","a","s"," ","n","o"," ","e","x","t","r","a","c","t","a","b","l","e"," ","t","e","x","t","."," ","P","l","e","a","s","e"," ","o","p","e","n"," ","t","h","e"," ","d","o","c","u","m","e","n","t"," ","t","o"," ","v","i","e","w",".">>
PdfFailedMessage == <<"C","o","u","l","d"," ","n","o","t"," ","f","e","t","c","h"," ","o","r"," ","p","a","r","s","e"," ","t","h","e"," ","P","D","F"," ","f","o","r"," ","s","u","m","m","a","r","y","."," ","P","l","e","a","s","e"," ","o","p","e","n"," ","t","h","e"," ","d","o","c","u","m","e","n","t"," ","t","o"," ","v","i","e","w",".">>
\* the text pypdf extracts when the PDF has some
PdfText == <<"p"," ","q">>
PdfOutcomes == {"text", "empty", "error"}

\* the first of a set of rows, 0 when there is none (SELECT ... LIMIT 1)
FirstOf(hits) == IF hits = {} THEN 0 ELSE CHOOSE i \in hits : \A j \in hits : i <= j

\* _find_item_by_guid: the row whose guid (or, without one, link) is the key;
\* 0 when there is none.  guid is the primary key, so at most one row with a
\* guid matches.
find_item_by_guid(tbl, guid) ==
    LET hits == {i \in 1..Len(tbl) : Or(tbl[i].guid, tbl[i].link) = guid}
    IN  FirstOf(hits)

\* _get_cached_ai_summary: by guid, then by link, each SELECT ... LIMIT 1
get_cached_ai_summary(tbl, guid) ==
    LET g == FirstOf({i \in 1..Len(tbl) : tbl[i].guid = guid})
        l == FirstOf({i \in 1..Len(tbl) : tbl[i].link = guid})
    IN  IF g # 0 /\ Truthy(tbl[g].ai_summary) THEN tbl[g].ai_summary
        ELSE IF l # 0 /\ Truthy(tbl[l].ai_summary) THEN tbl[l].ai_summary
        ELSE Null

\* UPDATE items SET ai_summary = ? WHERE guid = ?
UpdateByGuid(tbl, guid, summary) ==
    [i \in 1..Len(tbl) |->
        IF tbl[i].guid = guid THEN [tbl[i] EXCEPT !.ai_summary = summary] ELSE tbl[i]]

\* UPDATE items SET ai_summary = ? WHERE link = ?
UpdateByLink(tbl, link, summary) ==
    [i \in 1..Len(tbl) |->
        IF tbl[i].link = link THEN [tbl[i] EXCEPT !.ai_summary = summary] ELSE tbl[i]]

\* _set_cached_ai_summary: by guid, and by link
set_cached_ai_summary(tbl, guid, summary) ==
    UpdateByLink(UpdateByGuid(tbl, guid, summary), guid, summary)

Response(tbl, status, summary, calls, hasText) ==
    [items |-> tbl, status |-> status, summary |-> summary, calls |-> calls,
     hasText |-> hasText]

\* ai_summary, the handler of POST /api/ai-summary: the table it leaves, the
\* summary it answers with and the number of provider calls it made
ai_summary(tbl, guid, provider, pdf) ==
    LET i == find_item_by_guid(tbl, guid)
    IN  IF i = 0 THEN Response(tbl, 404, <<>>, 0, FALSE)
        ELSE
        LET item == tbl[i]
            title == Strip(Or(item.title, <<>>))
            link == Strip(Or(item.link, <<>>))
            text0 == Strip(Or(item.content, Or(item.summary, <<>>)))
            cached == get_cached_ai_summary(tbl, guid)
            wants_pdf == Contains(PdfMarker, text0) \/ is_pdf_link(link)
            fetch == wants_pdf /\ link # <<>>
            text == IF fetch THEN PdfText ELSE text0
            Ok(t, summary, calls) == Response(t, 200, summary, calls, text0 # <<>>)
        IN  IF Truthy(item.ai_summary) THEN Ok(tbl, item.ai_summary, 0)
            ELSE IF Truthy(cached) THEN Ok(tbl, cached, 0)
            ELSE IF fetch /\ pdf = "empty" THEN Ok(tbl, PdfNoTextMessage, 0)
            ELSE IF fetch /\ pdf = "error" THEN Ok(tbl, PdfFailedMessage, 0)
            ELSE IF text = <<>> THEN Ok(tbl, NoContentSentinel, 0)
            ELSE
            LET gen == generate_ai_summary(title, clean_extracted_text(title, text, DefaultMaxChars),
                                           SummaryLimit, provider)
                kept == IF ~is_boilerplate_summary(gen.out)
                        THEN UpdateByGuid(tbl, guid, gen.out) ELSE tbl
            IN  Ok(set_cached_ai_summary(kept, guid, gen.out), gen.out, gen.calls)

\* the stored items of SpecSum: a feed item under its native id, alone or
\* next to a publications card of the same link
SumLinks == {<<"u","1">>, <<"d",".","P","D","F">>}
SumBodies ==
    {[content |-> <<"a"," ","b">>, summary |-> <<>>],
     [content |-> <<>>, summary |-> <<"s"," ","x">>],
     [content |-> <<"n","o"," ","C","o","o","k","i","e","s">>, summary |-> <<>>],
     [content |-> <<" ">>, summary |-> <<"s">>],
     [content |-> PdfMarker \o <<"]">>, summary |-> <<>>]}
SumItem(l, b) ==
    [guid |-> <<"g","1">>, source |-> SourceTag, title |-> <<"T">>, link |-> l,
     content |-> b.content, summary |-> b.summary, published_at |-> Now,
     tags |-> <<>>]
SumCard == [link |-> <<"u","1">>, ver |-> 1, type |-> <<>>]
SumTables ==
    {upsert_item(<<>>, SumItem(l, b)) : l \in SumLinks, b \in SumBodies}
    \cup {upsert_item(upsert_item(<<>>, SumItem(l, b)), CardItem(SumCard)) :
            l \in SumLinks, b \in SumBodies}
SumGuids == {<<"g","1">>, <<"u","1">>, <<"x">>}
SumProviders ==
    {Absent, Failing, Reply(<<>>), Reply(<<" ">>), Reply(<<"o","k">>),
     Reply(<<"o","k"," ","2">>)}

InitSum ==
    /\ items \in SumTables
    /\ reqLog = <<>>
    /\ GenIdle /\ ScIdle /\ RunIdle /\ LinkIdle /\ FnIdle /\ NetIdle /\ SeedIdle /\ JobIdle

\* one request, served whole
Summarize(guid, provider, pdf) ==
    LET resp == ai_summary(items, guid, provider, pdf)
    IN  /\ Len(reqLog) < MaxRequests
        /\ items' = resp.items
        /\ reqLog' = Append(reqLog, [guid |-> guid, status |-> resp.status,
                                     summary |-> resp.summary, calls |-> resp.calls,
                                     hasText |-> resp.hasText])
        /\ UNCHANGED <<genVars, scVars, runVars, linkVars, fnVars, netVars, seedVars, jobVars>>

NextSum == \E guid \in SumGuids, provider \in SumProviders, pdf \in PdfOutcomes :
              Summarize(guid, provider, pdf)

SpecSum == InitSum /\ [][NextSum]_vars

(***************************************************************************)
(* SpecRace: summary requests served by the threads of the server's pool   *)
(* (ai_summary is a plain def route): a request reads the table and        *)
(* generates its summary, and writes the cache in a later step             *)
(***************************************************************************)
\* ai_summary, lines 1787-1831: does the request get as far as the provider
reaches_generate(tbl, guid, pdf) ==
    LET i == find_item_by_guid(tbl, guid)
    IN  /\ i # 0
        /\ ~Truthy(tbl[i].ai_summary)
        /\ ~Truthy(get_cached_ai_summary(tbl, guid))
        /\ LET link == Strip(Or(tbl[i].link, <<>>))
               text0 == Strip(Or(tbl[i].content, Or(tbl[i].summary, <<>>)))
               fetch == (Contains(PdfMarker, text0) \/ is_pdf_link(link)) /\ link # <<>>
           IN  IF fetch THEN pdf = "text" ELSE text0 # <<>>

\* ai_summary, lines 1838-1853: the two cache writes
cache_summary(tbl, guid, summary) ==
    set_cached_ai_summary(IF ~is_boilerplate_summary(summary)
                          THEN UpdateByGuid(tbl, guid, summary) ELSE tbl,
                          guid, summary)

\* the provider answers, not always with the same words
RaceProviders == {Reply(<<"o","k">>), Reply(<<"o","k"," ","2">>)}
RacePdfs == {"text", "error"}

InitRace ==
    /\ items \in SumTables
    /\ reqLog = <<>>
    /\ inFlight = <<>>
    /\ GenIdle /\ ScIdle /\ RunIdle /\ LinkIdle /\ FnIdle /\ NetIdle /\ SeedIdle
    /\ BatchIdle /\ TxIdle

Logged(guid, resp) ==
    [guid |-> guid, status |-> resp.status, summary |-> resp.summary,
     calls |-> resp.calls, hasText |-> resp.hasText]

\* ai_summary, lines 1787-1836: the reads of the table and what follows up to
\* the summary; a request that does not reach the provider answers at once
SumBegin(guid, provider, pdf) ==
    LET resp == ai_summary(items, guid, provider, pdf)
    IN  /\ Len(reqLog) + Len(inFlight) < MaxRequests
        /\ IF reaches_generate(items, guid, pdf)
           THEN /\ inFlight' = Append(inFlight, Logged(guid, resp))
                /\ UNCHANGED reqLog
           ELSE /\ reqLog' = Append(reqLog, Logged(guid, resp))
                /\ UNCHANGED inFlight
        /\ UNCHANGED <<items, genVars, scVars, runVars, linkVars, fnVars, netVars, seedVars, batchVars, txVars>>

\* ai_summary, lines 1838-1855: the cache writes and the response
SumFinish(k) ==
    /\ k \in 1..Len(inFlight)
    /\ items' = cache_summary(items, inFlight[k].guid, inFlight[k].summary)
    /\ reqLog' = Append(reqLog, inFlight[k])
    /\ inFlight' = SubSeq(inFlight, 1, k - 1) \o SubSeq(inFlight, k + 1, Len(inFlight))
    /\ UNCHANGED <<genVars, scVars, runVars, linkVars, fnVars, netVars, seedVars, batchVars, txVars>>

NextRace ==
    \/ \E guid \in SumGuids, provider \in RaceProviders, pdf \in RacePdfs :
          SumBegin(guid, provider, pdf)
    \/ \E k \in 1..MaxRequests : SumFinish(k)

SpecRace == InitRace /\ [][NextRace]_vars

(***************************************************************************)
(* SpecCache: ingestion and summary requests on one table: the feed loop   *)
(* and the crawler store and re-store items, the summary handler and       *)
(* tools/precompute_summaries.py fill the cache                            *)
(***************************************************************************)
PrecomputeLimit == 100

\* precompute_summaries.update_summary: ai_summary and ai_summary_updated_at
\* of the row with this guid
update_summary(tbl, guid, summary) ==
    [i \in 1..Len(tbl) |->
        IF tbl[i].guid = guid
        THEN [tbl[i] EXCEPT !.ai_summary = summary, !.ai_summary_updated_at = Now]
        ELSE tbl[i]]

InitCache ==
    /\ items = <<>>
    /\ reqLog = <<>>
    /\ lastWrite = [g \in Guids |-> NoWrite]
    /\ runPc = <<>> /\ runItem = <<>> /\ lastFed = <<>>
    /\ GenIdle /\ ScIdle /\ LinkIdle /\ FnIdle /\ NetIdle /\ SeedIdle /\ JobIdle

\* run, lines 31-78: the loop body for one entry, its write succeeding
FeedIngest(e) ==
    /\ items' = run_item(items, e)
    /\ lastWrite' = IF ReachesUpsert(items, e)
                    THEN Wrote(FeedWork[e].guid, "feed", e, FeedWork[e].stored)
                    ELSE lastWrite
    /\ UNCHANGED <<runPc, runItem, lastFed, genVars, scVars, sumVars, linkVars, fnVars, netVars, seedVars, jobVars>>

\* precompute_summaries.main, the loop body for a row: one without summary
\* (ONLY_EMPTY) and with a text gets the summary generated for it
Precompute(i, provider) ==
    LET title == Strip(Or(items[i].title, <<>>))
        text == clean_extracted_text(title, Strip(Or(items[i].content, Or(items[i].summary, <<>>))),
                                     DefaultMaxChars)
    IN  /\ ~Truthy(items[i].ai_summary)
        /\ text # <<>>
        /\ items' = update_summary(items, items[i].guid,
                                   generate_ai_summary(title, text, PrecomputeLimit, provider).out)
    /\ UNCHANGED <<genVars, scVars, runVars, sumVars, linkVars, fnVars, netVars, seedVars, jobVars>>

NextCache ==
    \/ \E e \in BatchEntries : FeedIngest(e)
    \/ \E c \in BatchCards : CrawlUpsert(c)
    \/ \E i \in 1..Len(items), provider \in RaceProviders : Precompute(i, provider)
    \/ \E guid \in SumGuids, provider \in SumProviders : Summarize(guid, provider, "text")

SpecCache == InitCache /\ [][NextCache]_vars

(***************************************************************************)
(* SpecLink: controls, item texts and relink_item_controls calls           *)
(***************************************************************************)
DefaultMinRelevance == Frac(7, 20)      \* min_relevance = 0.35
ToolMinRelevance == Frac(1, 4)          \* tools/link_controls.py: 0.25
Thresholds == {DefaultMinRelevance, ToolMinRelevance}

\* DB._json_array of a list: the JSON list of its trimmed, non-empty elements
json_array(val) ==
    LET nonblank(x) == Strip(x) # <<>>
        kept == SelectSeq(val, nonblank)
    IN  JsonList([i \in 1..Len(kept) |-> StrElem(Strip(kept[i]))])

\* DB.upsert_control, the payload of the statement.  description and themes
\* are handled like name, version like framework.
control_payload(ref, name, keywords, framework) ==
    [ref |-> Strip(ref), name |-> Strip(name), keywords |-> json_array(keywords),
     framework |-> IF Truthy(framework) THEN Strip(framework) ELSE Null]

\* a statement that inserts a new row whatever rows there are
insert_or_update_Insert(tbl, payload) ==
    Append(tbl, [id |-> Len(tbl) + 1, ref |-> payload.ref, name |-> payload.name,
                 keywords |-> payload.keywords, framework |-> payload.framework])

\* INSERT ... ON CONFLICT(ref) DO UPDATE.  The ids are AUTOINCREMENT rowids,
\* which grow with every insert (a conflicting INSERT takes a number of the
\* sequence too) and are never reused: the rows are numbered here in the
\* order of their insertion (no control is ever deleted).
insert_or_update(tbl, payload) ==
    IF \E i \in 1..Len(tbl) : tbl[i].ref = payload.ref
    THEN [i \in 1..Len(tbl) |->
            IF tbl[i].ref = payload.ref
            THEN [tbl[i] EXCEPT !.name = payload.name, !.keywords = payload.keywords,
                                !.framework = IF payload.framework # Null
                                              THEN payload.framework ELSE @]
            ELSE tbl[i]]
    ELSE Append(tbl, [id |-> Len(tbl) + 1, ref |-> payload.ref, name |-> payload.name,
                      keywords |-> payload.keywords, framework |-> payload.framework])

\* DB.upsert_control: the table after the call
upsert_control(tbl, ref, name, keywords, framework) ==
    insert_or_update(tbl, control_payload(ref, name, keywords, framework))

\* relink_item_controls, lines 645-651: the text of an item
RelinkText(item) ==
    Strip(Strip(Or(item.title, <<>>)) \o <<" ">>
          \o Strip(Or(item.ai_summary, Or(item.summary, Or(item.content, <<>>)))))

\* relink_item_controls, lines 659-670: the controls that reach min_relevance,
\* with their scores
Scored(text, ctrls, min_relevance) ==
    {[control_id |-> ctrls[i].id,
      relevance |-> ControlScore(text, ctrls[i].name, ctrls[i].keywords)] :
        i \in {j \in 1..Len(ctrls) :
                FracLe(min_relevance, ControlScore(text, ctrls[j].name, ctrls[j].keywords))}}

\* relink_item_controls, lines 659-670: one control with its score
ScoreRow(text, c) ==
    [control_id |-> c.id, ref |-> c.ref, relevance |-> ControlScore(text, c.name, c.keywords)]

\* relink_item_controls, lines 659-670: the list scored, in the order the
\* SELECT yields the controls (rowid order)
ScoredList(text, ctrls, min_relevance) ==
    LET reaches(sc) == FracLe(min_relevance, sc.relevance)
    IN  SelectSeq([k \in 1..Len(ctrls) |-> ScoreRow(text, ctrls[k])], reaches)

\* the rows inserted for the scored list, and the pairs returned for it
LinkRows(item, scored) ==
    {[item_guid |-> item.guid, control_id |-> scored[k].control_id,
      relevance |-> scored[k].relevance] : k \in 1..Len(scored)}
ReturnedPairs(scored) ==
    [k \in 1..Len(scored) |-> [ref |-> scored[k].ref, relevance |-> scored[k].relevance]]

\* relink_item_controls, lines 672-684: DELETE and INSERT if the list is not
\* empty, and the return value
Relinked(lnk, item, scored) ==
    [links |-> IF scored # <<>>
               THEN {l \in lnk : l.item_guid # item.guid} \cup LinkRows(item, scored)
               ELSE lnk,
     returned |-> ReturnedPairs(scored)]

\* the call that inserts only the controls scoring above min_relevance
relink_item_controls_Strict(lnk, ctrls, item, min_relevance) ==
    LET above(sc) == ~FracLe(sc.relevance, min_relevance)
    IN  Relinked(lnk, item,
                 SelectSeq(ScoredList(RelinkText(item), ctrls, min_relevance), above))

\* the call that refreshes the links of an item only when it has none yet
relink_item_controls_Once(lnk, ctrls, item, min_relevance) ==
    IF \E l \in lnk : l.item_guid = item.guid
    THEN [links |-> {l \in lnk : l.item_guid # item.guid}, returned |-> <<>>]
    ELSE Relinked(lnk, item, ScoredList(RelinkText(item), ctrls, min_relevance))

\* relink_item_controls: table item_control_links after the call, and the
\* list of (ref, relevance) pairs it returns
relink_item_controls(lnk, ctrls, item, min_relevance) ==
    IF RelinkText(item) = <<>> \/ ctrls = <<>>
    THEN [links |-> lnk, returned |-> <<>>]
    ELSE Relinked(lnk, item, ScoredList(RelinkText(item), ctrls, min_relevance))

\* the item of SpecLink, in three versions of its text (one of them empty)
LinkVersions == {0, 1, 2}
LinkItem(v) ==
    [guid |-> <<"u","1">>, source |-> PublicationsSource, title |-> Version(v).title,
     link |-> <<"u","1">>, content |-> Version(v).content, summary |-> <<>>,
     published_at |-> <<>>, tags |-> <<>>]
Refs == {<<"A">>, <<"B">>}
LinkNames == {<<"I","n","c">>, <<"o","t">>}
LinkKeywords == {<<KwInc>>, <<KwZzz, <<" ">>>>, <<KwIncRep>>}

InitLink ==
    /\ items = <<>>
    /\ controls = <<>>
    /\ links = {}
    /\ relinked = <<>>
    /\ GenIdle /\ ScIdle /\ RunIdle /\ SumIdle /\ FnIdle /\ NetIdle /\ SeedIdle /\ JobIdle

\* upsert_item: the item is stored, or stored again with another text
StoreItem(v) ==
    /\ items' = upsert_item(items, LinkItem(v))
    /\ relinked' = <<>>
    /\ UNCHANGED <<controls, links, genVars, scVars, runVars, sumVars, fnVars, netVars, seedVars, jobVars>>

\* upsert_control: a control is seeded, or seeded again with other keywords
SeedControl(ref, name, keywords) ==
    /\ controls' = upsert_control(controls, ref, name, keywords, Null)
    /\ relinked' = <<>>
    /\ UNCHANGED <<items, links, genVars, scVars, runVars, sumVars, fnVars, netVars, seedVars, jobVars>>

\* the effect of a relink_item_controls call with the given result
RelinkResult(i, min_relevance, call) ==
    /\ links' = call.links
    /\ relinked' = <<[guid |-> items[i].guid, min_relevance |-> min_relevance,
                      returned |-> call.returned,
                      again |-> /\ relinked # <<>>
                                /\ relinked[1].guid = items[i].guid
                                /\ relinked[1].min_relevance = min_relevance]>>
    /\ UNCHANGED <<items, controls, genVars, scVars, runVars, sumVars, fnVars, netVars, seedVars, jobVars>>

\* relink_item_controls(item, min_relevance) for a stored item
Relink(i, min_relevance) ==
    RelinkResult(i, min_relevance,
                 relink_item_controls(links, controls, items[i], min_relevance))

NextLink ==
    \/ \E v \in LinkVersions : StoreItem(v)
    \/ \E ref \in Refs, name \in LinkNames, keywords \in LinkKeywords :
          SeedControl(ref, name, keywords)
    \/ \E i \in 1..Len(items), min_relevance \in Thresholds : Relink(i, min_relevance)

SpecLink == InitLink /\ [][NextLink]_vars

(***************************************************************************)
(* SpecSeed: runs of the seed tools (tools/seed_iso_controls.py, main;     *)
(* tools/seed_controls.py) on a database with one item, and relinks of it  *)
(***************************************************************************)
MaxSeedLen == 2     \* most entries of a seed list

SeedEntry(ref, name, keywords, framework) ==
    [ref |-> ref, name |-> name, keywords |-> keywords, framework |-> framework]
FwIso == <<"I","S","O">>
SeedEntries ==
    {SeedEntry(<<"A">>, <<"I","n","c">>, <<KwInc>>, FwIso),
     SeedEntry(<<" ","A">>, <<"o","t"," ">>, <<KwZzz, <<" ">>>>, Null),
     SeedEntry(<<"B">>, <<"I","n","c">>, <<KwInc>>, Null),
     SeedEntry(<<"B"," ">>, <<"o","t">>, <<KwIncRep>>, FwIso)}
SeedLists == StrUpTo(SeedEntries, MaxSeedLen) \ {<<>>}

\* the payloads of the entries, computed once
SeedPayloads ==
    {<<e, control_payload(e.ref, e.name, e.keywords, e.framework)>> : e \in SeedEntries}
PayloadOf(e) == (CHOOSE p \in SeedPayloads : p[1] = e)[2]

\* SELECT id FROM controls WHERE ref=?; 0 without row
ControlId(tbl, ref) ==
    IF \E i \in 1..Len(tbl) : tbl[i].ref = ref
    THEN tbl[CHOOSE i \in 1..Len(tbl) : tbl[i].ref = ref].id
    ELSE 0

\* the controls table after the loop of the seed tool over the list
RECURSIVE seed_controls(_, _)
seed_controls(tbl, list) ==
    IF list = <<>> THEN tbl
    ELSE seed_controls(insert_or_update(tbl, PayloadOf(Head(list))), Tail(list))

\* the table after the first k entries of the list
SeededUpTo(tbl, list, k) == seed_controls(tbl, SubSeq(list, 1, k))

InitSeed ==
    /\ items = upsert_item(<<>>, LinkItem(1))
    /\ controls = <<>>
    /\ links = {}
    /\ relinked = <<>>
    /\ seeded = <<>>
    /\ GenIdle /\ ScIdle /\ RunIdle /\ SumIdle /\ FnIdle /\ NetIdle /\ JobIdle

\* one run of a seed tool: upsert_control for each entry of its list, in order
SeedRun(list) ==
    /\ controls' = seed_controls(controls, list)
    /\ seeded' = <<[list |-> list,
                    ids |-> [k \in 1..Len(list) |->
                                ControlId(SeededUpTo(controls, list, k), PayloadOf(list[k]).ref)],
                    had |-> [k \in 1..Len(list) |->
                                ControlId(SeededUpTo(controls, list, k - 1), PayloadOf(list[k]).ref)],
                    again |-> seeded # <<>> /\ seeded[1].list = list,
                    unchanged |-> seed_controls(controls, list) = controls]>>
    /\ relinked' = <<>>
    /\ UNCHANGED <<items, links, genVars, scVars, runVars, sumVars, fnVars, netVars, jobVars>>

NextSeed ==
    \/ \E list \in SeedLists : SeedRun(list)
    \/ Relink(1, DefaultMinRelevance)

SpecSeed == InitSeed /\ [][NextSeed]_vars

(***************************************************************************)
(* SpecTx: relink_item_controls statement by statement, on its own         *)
(* connection, with list_item_links calls of other connections in between  *)
(* and exceptions during the inserts.  While the call holds the write lock *)
(* (from DELETE to commit or rollback) no other connection writes.         *)
(***************************************************************************)
ItemLinks(lnk, guid) == {l \in lnk : l.item_guid = guid}

\* what a statement of another connection reads while a transaction is open
\* on this one, with every statement committed as it runs (isolation_level None)
visible_links_Autocommit(committed, view) == view

\* what a statement of another connection reads while a transaction is open
\* on this one: sqlite3.connect with the default isolation_level opens a
\* transaction before DELETE and INSERT, and its changes are seen by others
\* only once committed
visible_links(committed, view) == committed

\* the controls table as a run of a seed tool left it
InitTx ==
    /\ items = <<>>
    /\ controls \in {seed_controls(<<>>, list) : list \in SeedLists}
    /\ links = {}
    /\ relinked = <<>>
    /\ txPc = "idle" /\ txView = {} /\ txTodo = <<>> /\ txHist = <<>> /\ seen = <<>>
    /\ GenIdle /\ ScIdle /\ RunIdle /\ SumIdle /\ FnIdle /\ NetIdle /\ SeedIdle /\ BatchIdle /\ RaceIdle

\* a write of another connection, which waits while the write lock is held
TxOther(write) ==
    /\ txPc # "open"
    /\ write

\* relink_item_controls, lines 645-670: the text, the SELECT and the scoring
\* loop; the call returns [] for an empty text or an empty controls table
TxScore(i, min_relevance) ==
    /\ txPc \in {"idle", "done", "failed"}
    /\ LET text == RelinkText(items[i])
           scored == IF text = <<>> \/ controls = <<>> THEN <<>>
                     ELSE ScoredList(text, controls, min_relevance)
       IN  /\ txTodo' = [k \in 1..Len(scored) |->
                            [item_guid |-> items[i].guid, control_id |-> scored[k].control_id,
                             relevance |-> scored[k].relevance]]
           /\ txHist' = <<[guid |-> items[i].guid, old |-> {},
                           new |-> LinkRows(items[i], scored)]>>
           /\ txPc' = IF text = <<>> \/ controls = <<>> THEN "done" ELSE "scored"
    /\ seen' = <<>>
    /\ UNCHANGED <<txView, items, linkVars, genVars, scVars, runVars, sumVars, fnVars, netVars, seedVars, batchVars, raceVars>>

\* relink_item_controls, lines 672-673: DELETE FROM item_control_links WHERE
\* item_guid=?, which opens the transaction; with nothing scored the call
\* returns without a statement
TxDelete ==
    /\ txPc = "scored"
    /\ IF txTodo = <<>>
       THEN /\ txPc' = "done"
            /\ UNCHANGED <<txView, txHist>>
       ELSE /\ txPc' = "open"
            /\ txView' = links \ ItemLinks(links, txHist[1].guid)
            /\ txHist' = <<[txHist[1] EXCEPT !.old = ItemLinks(links, txHist[1].guid)]>>
    /\ UNCHANGED <<txTodo, seen, items, linkVars, genVars, scVars, runVars, sumVars, fnVars, netVars, seedVars, batchVars, raceVars>>

\* relink_item_controls, lines 675-681: executemany inserts the next row
TxInsert ==
    /\ txPc = "open"
    /\ txTodo # <<>>
    /\ txView' = txView \cup {Head(txTodo)}
    /\ txTodo' = Tail(txTodo)
    /\ UNCHANGED <<txPc, txHist, seen, items, linkVars, genVars, scVars, runVars, sumVars, fnVars, netVars, seedVars, batchVars, raceVars>>

\* relink_item_controls, line 682: conn.commit()
TxCommit ==
    /\ txPc = "open"
    /\ txTodo = <<>>
    /\ links' = txView
    /\ txPc' = "done"
    /\ UNCHANGED <<txView, txTodo, txHist, seen, items, controls, relinked, genVars, scVars, runVars, sumVars, fnVars, netVars, seedVars, batchVars, raceVars>>

\* an exception after DELETE (an INSERT or the commit fails, or the process
\* dies): the with block of the connection rolls the transaction back
TxFail ==
    /\ txPc = "open"
    /\ txView' = links
    /\ txTodo' = <<>>
    /\ txPc' = "failed"
    /\ UNCHANGED <<txHist, seen, items, linkVars, genVars, scVars, runVars, sumVars, fnVars, netVars, seedVars, batchVars, raceVars>>

\* list_item_links(guid) on another connection
ReadLinks(guid) ==
    /\ seen' = <<[guid |-> guid, during |-> txPc,
                  rows |-> ItemLinks(IF txPc = "open" THEN visible_links(links, txView)
                                     ELSE links, guid)]>>
    /\ UNCHANGED <<txPc, txView, txTodo, txHist, items, linkVars, genVars, scVars, runVars, sumVars, fnVars, netVars, seedVars, batchVars, raceVars>>

NextTx ==
    \/ \E v \in LinkVersions : TxOther(StoreItem(v))
    \/ \E i \in 1..Len(items), min_relevance \in Thresholds : TxScore(i, min_relevance)
    \/ TxDelete
    \/ TxInsert
    \/ TxCommit
    \/ TxFail
    \/ \E i \in 1..Len(items) : ReadLinks(items[i].guid)

SpecTx == InitTx /\ [][NextTx]_vars

(***************************************************************************)
(* SpecTags: _load_tags(_dump_tags(tags)) for tags given as a list, as a   *)
(* comma-separated string and as a JSON-array string                       *)
(***************************************************************************)
MaxTags == 2        \* most tags of one input

\* str.replace(c, "") for a one-character c
Without(s, c) == LET keep(x) == x # c IN SelectSeq(s, keep)

\* json.dumps of a list of strings without quotes, backslashes or control
\* characters (ensure_ascii=False)
RECURSIVE json_dumps(_)
json_dumps(list) ==
    LET quoted(t) == <<"\"">> \o t \o <<"\"">>
        RECURSIVE Join(_)
        Join(q) == IF Len(q) = 1 THEN quoted(q[1])
                   ELSE quoted(q[1]) \o <<",", " ">> \o Join(Tail(q))
    IN  IF list = <<>> THEN <<"[", "]">> ELSE <<"[">> \o Join(list) \o <<"]">>

NotJson == [ok |-> FALSE, list |-> <<>>]

\* json.loads, the elements of an array after "[" (or after a comma when
\* more is TRUE): strings without escapes, separated by commas
RECURSIVE LoadsElems(_, _, _)
LoadsElems(s0, acc, more) ==
    LET s == LStrip(s0)
    IN  IF s = <<>> THEN NotJson
        ELSE IF Head(s) = "]"
        THEN IF ~more /\ LStrip(Tail(s)) = <<>> THEN [ok |-> TRUE, list |-> acc] ELSE NotJson
        ELSE IF Head(s) = "\""
        THEN LET body == Tail(s)
                 ends == {i \in 1..Len(body) : body[i] = "\""}
             IN  IF ends = {} THEN NotJson
                 ELSE LET e == CHOOSE i \in ends : \A j \in ends : i <= j
                          rest == LStrip(SubSeq(body, e + 1, Len(body)))
                          acc2 == Append(acc, SubSeq(body, 1, e - 1))
                      IN  IF rest = <<>> THEN NotJson
                          ELSE IF Head(rest) = "," THEN LoadsElems(Tail(rest), acc2, TRUE)
                          ELSE IF Head(rest) = "]" THEN LoadsElems(rest, acc2, FALSE)
                          ELSE NotJson
        ELSE NotJson

\* json.loads of a text made of letters, spaces, commas, quotes and square
\* brackets: a list of strings, or not a list (any other text of these
\* characters raises JSONDecodeError or is a JSON string)
json_loads(s0) ==
    LET s == LStrip(s0)
    IN  IF s # <<>> /\ Head(s) = "[" THEN LoadsElems(Tail(s), <<>>, FALSE) ELSE NotJson

\* [p.strip() for p in s.split(",") if p.strip()]
CommaParts(s) == dump_tags(SplitOn(s, ","))

ListTags(list) == [kind |-> "list", list |-> list, text |-> <<>>]
TextTags(text) == [kind |-> "str", list |-> <<>>, text |-> text]
NoTags == [kind |-> "none", list |-> <<>>, text |-> <<>>]

\* DB._dump_tags: the JSON text stored in items.tags
dump_tags_text(tags) ==
    IF tags.kind = "none" THEN json_dumps(<<>>)
    ELSE IF tags.kind = "list" THEN json_dumps(dump_tags(tags.list))
    ELSE LET s == Strip(tags.text)
             maybe == json_loads(s)
         IN  IF s = <<>> THEN json_dumps(<<>>)
             ELSE IF maybe.ok THEN json_dumps(dump_tags(maybe.list))
             ELSE json_dumps(CommaParts(s))

\* DB._load_tags
load_tags(raw) ==
    LET s == Strip(raw)
        value == json_loads(s)
    IN  IF raw = <<>> \/ s = <<>> THEN <<>>
        ELSE IF value.ok THEN dump_tags(value.list)
        ELSE IF Head(s) = "[" /\ s[Len(s)] = "]"
        THEN CommaParts(Without(Without(SubSeq(s, 2, Len(s) - 1), "\""), "'"))
        ELSE CommaParts(s)

\* the tags of an input, written one by one
TagPool == {<<"a">>, <<"b">>, <<" ","a">>, <<"a"," ","b">>, <<>>, <<" ">>}
TagLists == StrUpTo(TagPool, MaxTags)
RECURSIVE JoinComma(_)
JoinComma(list) ==
    IF list = <<>> THEN <<>>
    ELSE IF Len(list) = 1 THEN list[1]
    ELSE list[1] \o <<",">> \o JoinComma(Tail(list))
TagInputs ==
    {NoTags}
    \cup {ListTags(l) : l \in TagLists}
    \cup {TextTags(JoinComma(l)) : l \in TagLists}
    \cup {TextTags(json_dumps(l)) : l \in TagLists}
    \cup {TextTags(<<" ">> \o Without(json_dumps(l), " ") \o <<" ">>) : l \in TagLists}

\* the trimmed, non-empty tags an input names
SemanticTags(tags) ==
    LET list == IF tags.kind = "list" THEN tags.list
                ELSE IF json_loads(Strip(tags.text)).ok THEN json_loads(Strip(tags.text)).list
                ELSE SplitOn(tags.text, ",")
    IN  {Strip(list[i]) : i \in 1..Len(list)} \ {<<>>}

InitTags ==
    /\ fnIn \in TagInputs
    /\ fnOut = <<>>
    /\ GenIdle /\ ScIdle /\ DbIdle /\ RunIdle /\ SumIdle /\ LinkIdle /\ NetIdle /\ SeedIdle /\ JobIdle

\* items.tags written by upsert_item, read back by a reader
TagsRoundTrip ==
    /\ fnOut = <<>>
    /\ fnOut' = <<[stored |-> dump_tags_text(fnIn),
                   loaded |-> load_tags(dump_tags_text(fnIn))]>>
    /\ UNCHANGED <<fnIn, genVars, scVars, dbVars, runVars, sumVars, linkVars, netVars, seedVars, jobVars>>

NextTags == TagsRoundTrip

SpecTags == InitTags /\ [][NextTags]_vars

(***************************************************************************)
(* Claims about the items table (specification Spec)                       *)
(***************************************************************************)

RowsOf(g) == RowIdx(g)

\* C1: after any interleaving of upsert_item calls from the feed run and
\* from the publications crawler, the items table holds at most one row per
\* guid (the guid of a record being its native guid or else its link).
C1_UniqueGuid ==
    \A i, j \in 1..Len(items) : items[i].guid = items[j].guid => i = j

\* the crawler wrote a guid that was already stored, next to another row
C1_Witness ==
    /\ Len(items) = 2
    /\ \E g \in Guids : lastWrite[g].by = "card" /\ lastWrite[g].conflict
    /\ \E g \in Guids : lastWrite[g].by = "feed" /\ lastWrite[g].conflict

C3_NoSharedLink ==
    \A i, j \in 1..Len(items) :
        (items[i].link = items[j].link /\ Truthy(items[i].link)) => i = j

(***************************************************************************)
(* Claims about the item-control links (specification SpecLink)            *)
(***************************************************************************)

\* C4: right after a relink_item_controls call, the link rows of the item
\* are exactly the controls whose score for the item's current text reaches
\* the threshold of the call (also when that set is empty, the item has no
\* text, or no control exists).
C4_LinksReplaced ==
    \A k \in 1..Len(relinked) :
        LET call == relinked[k]
            item == items[CHOOSE i \in 1..Len(items) : items[i].guid = call.guid]
        IN  {l.control_id : l \in {x \in links : x.item_guid = call.guid}}
            = {sc.control_id : sc \in Scored(RelinkText(item), controls, call.min_relevance)}

\* the link rows of an item
LinksOf(lnk, guid) == {l \in lnk : l.item_guid = guid}

\* C11: a relink call that repeats the call before it (same item, text,
\* controls and threshold) returns the same list and leaves the same stored
\* (item_guid, control_id, relevance) rows.
C11_RelinkStable ==
    [][(relinked' # <<>> /\ relinked'[1].again) =>
          (links' = links /\ relinked'[1].returned = relinked[1].returned)]_vars

\* a repeated call that found controls to link
C11_Witness ==
    /\ relinked # <<>>
    /\ relinked[1].again
    /\ relinked[1].returned # <<>>
    /\ LinksOf(links, relinked[1].guid) # {}

\* C12: a relink pass inserts a row for a control exactly when the control's
\* score (name bonus added, capped at 1) reaches the min_relevance of the
\* pass, and the pairs it returns are the rows it inserted.
C12_ThresholdExact ==
    [][relinked' # <<>> =>
          LET call == relinked'[1]
              item == items[CHOOSE i \in 1..Len(items) : items[i].guid = call.guid]
              reach == {j \in 1..Len(controls) :
                          FracLe(call.min_relevance,
                                 ControlScore(RelinkText(item), controls[j].name,
                                              controls[j].keywords))}
              rows == {[item_guid |-> call.guid, control_id |-> controls[j].id,
                        relevance |-> ControlScore(RelinkText(item), controls[j].name,
                                                   controls[j].keywords)] : j \in reach}
              inserted == IF rows = {} THEN links' \ links ELSE LinksOf(links', call.guid)
          IN  /\ inserted = rows
              /\ {[ref |-> call.returned[k].ref, relevance |-> call.returned[k].relevance] :
                     k \in 1..Len(call.returned)}
                 = {[ref |-> controls[j].ref,
                     relevance |-> ControlScore(RelinkText(item), controls[j].name,
                                                controls[j].keywords)] : j \in reach}
              /\ Len(call.returned) = Cardinality(reach)]_vars

\* a pass at 0.25 that linked a control scoring exactly 0.25 and left out one
\* scoring below it
C12_Witness ==
    /\ relinked # <<>>
    /\ relinked[1].min_relevance = ToolMinRelevance
    /\ Len(controls) = 2
    /\ \E l \in LinksOf(links, relinked[1].guid) : FracEq(l.relevance, ToolMinRelevance)
    /\ Len(relinked[1].returned) = 1
    /\ Cardinality(LinksOf(links, relinked[1].guid)) = 1

(***************************************************************************)
(* Claims about the tags column (specification SpecTags)                   *)
(***************************************************************************)

\* C13: for tags given as a list, a comma-separated string or a JSON-array
\* string, _load_tags(_dump_tags(tags)) is trimmed, has no empty string and no
\* duplicate, and its elements are the trimmed non-empty tags of the input.
C13_RoundTrip ==
    fnOut # <<>> =>
        LET out == fnOut[1].loaded
        IN  /\ \A i \in 1..Len(out) : out[i] # <<>> /\ Strip(out[i]) = out[i]
            /\ \A i, j \in 1..Len(out) : out[i] = out[j] => i = j
            /\ {out[i] : i \in 1..Len(out)} = SemanticTags(fnIn)

(***************************************************************************)
(* Claims about the text cleaner (specification SpecClean)                 *)
(***************************************************************************)

\* C14 as stated: when what remains after dropping the boilerplate, short and
\* title lines is shorter than 200 characters the result is exactly
\* text.strip(), and the result is never longer than max_chars.
C14_Original ==
    fnOut # <<>> =>
        /\ Len(CleanedLines(fnIn.title, fnIn.text)) < MinCleanedLen =>
              fnOut[1].out = Strip(fnIn.text)
        /\ Len(fnOut[1].out) <= fnIn.max_chars

\* C14, amended: in that case the result is text.strip() cut to its first
\* max_chars characters (max_chars >= 0), and the result is never longer than
\* max_chars.
C14_FallbackCut ==
    fnOut # <<>> =>
        /\ Len(CleanedLines(fnIn.title, fnIn.text)) < MinCleanedLen =>
              fnOut[1].out = SubSeq(Strip(fnIn.text), 1,
                                     Min(fnIn.max_chars, Len(Strip(fnIn.text))))
        /\ Len(fnOut[1].out) <= fnIn.max_chars

\* lines were dropped, less than 200 characters remained, and the trimmed
\* original that came back was longer than max_chars and was cut
C14_Witness ==
    /\ fnOut # <<>>
    /\ CleanedLines(fnIn.title, fnIn.text) # <<>>
    /\ Len(CleanedLines(fnIn.title, fnIn.text)) < MinCleanedLen
    /\ CleanedLines(fnIn.title, fnIn.text) # Strip(fnIn.text)
    /\ Len(Strip(fnIn.text)) > fnIn.max_chars
    /\ fnIn.max_chars > 0
    /\ Len(fnOut[1].out) = fnIn.max_chars

(***************************************************************************)
(* Claims about the source filter (specification SpecFilter)               *)
(***************************************************************************)

FilterCfg ==
    IF fnIn.source \in DOMAIN fnIn.filters THEN fnIn.filters[fnIn.source] ELSE NoFilter
FilterBlob == Lower(fnIn.title \o <<"\n">> \o fnIn.body)

\* C15: with the bypass flag off, _passes_filters is false when an exclude
\* pattern of the source matches title+body, and otherwise true exactly when
\* the include list of the source is empty or one include pattern matches; a
\* source without filter entry admits everything.
C15_Admission ==
    (fnOut # <<>> /\ ~fnIn.bypass) =>
        /\ AnyOf(FilterCfg.exclude, FilterBlob) => ~fnOut[1].passes
        /\ ~AnyOf(FilterCfg.exclude, FilterBlob) =>
              (fnOut[1].passes <=>
                  (FilterCfg.include = <<>> \/ AnyOf(FilterCfg.include, FilterBlob)))
        /\ fnIn.source \notin DOMAIN fnIn.filters => fnOut[1].passes

\* an include pattern and an exclude pattern both match, and the item is
\* rejected
C15_Witness ==
    /\ fnOut # <<>>
    /\ ~fnIn.bypass
    /\ AnyOf(FilterCfg.include, FilterBlob)
    /\ AnyOf(FilterCfg.exclude, FilterBlob)
    /\ ~fnOut[1].passes

(***************************************************************************)
(* Claims about _fetch (specification SpecFetch)                           *)
(***************************************************************************)

Attempts == SelectSeq(fetchLog, LAMBDA ev : ev.kind \in {"ok", "failed"})
FailedAttempts == SelectSeq(fetchLog, LAMBDA ev : ev.kind = "failed")

\* C16: _fetch makes at most 3 attempts; the first successful attempt ends the
\* call with the document and nothing happens after it; the wait after the
\* failed attempt i (i = 0, 1) is backoff^i and comes before the next attempt;
\* there is no wait after the last attempt; the call raises exactly when all 3
\* attempts failed.
C16_RetryProtocol ==
    /\ Len(Attempts) <= DefaultTries
    /\ \A k \in 1..Len(fetchLog) :
          LET ev == fetchLog[k] IN
          /\ ev.kind = "ok" => (k = Len(fetchLog) /\ fetchPc = "returned")
          /\ (ev.kind = "failed" /\ ev.i < DefaultTries - 1 /\ k < Len(fetchLog)) =>
                fetchLog[k + 1] = Event("sleep", ev.i, FracPow(fetchCall.backoff, ev.i))
          /\ (ev.kind = "failed" /\ ev.i = DefaultTries - 1) => k = Len(fetchLog)
          /\ ev.kind = "sleep" =>
                (k > 1 /\ fetchLog[k - 1].kind = "failed" /\ fetchLog[k - 1].i = ev.i)
          /\ (ev.kind = "sleep" /\ k < Len(fetchLog)) =>
                (fetchLog[k + 1].kind \in {"ok", "failed"} /\ fetchLog[k + 1].i = ev.i + 1)
    /\ fetchPc = "returned" => fetchLog[Len(fetchLog)].kind = "ok"
    /\ fetchPc = "raised" <=> Len(FailedAttempts) = DefaultTries
    /\ fetchPc = "raised" => fetchErr = fetchLog[Len(fetchLog)].val
    /\ fetchPc \in {"get", "sleep"} => Len(Attempts) < DefaultTries

\* two failed attempts, waits of 1 and of 8/5 seconds, and the third attempt
\* returns the document
C16_Witness ==
    /\ fetchPc = "returned"
    /\ Len(fetchLog) = 5
    /\ fetchLog[2] = Event("sleep", 0, Frac(1, 1))
    /\ fetchLog[4] = Event("sleep", 1, Frac(8, 5))
    /\ fetchLog[5].kind = "ok"

(***************************************************************************)
(* Claims about the publications crawler (specifications SpecCrawl and     *)
(* SpecCrawlFair)                                                          *)
(***************************************************************************)

\* C17: a listing-page request of the crawler that fails is retried, and the
\* start URL is abandoned only when the retry attempts (3, as in _fetch) for
\* the failing page are used up.
C17_RetriedBeforeAbandoned ==
    \A k \in 1..Len(crawlLeft) :
        crawlLeft[k].why = "fetch failed" => crawlLeft[k].requests = DefaultTries

PagesBounded ==
    /\ \A k \in 1..Len(crawlLeft) : crawlLeft[k].pages <= MaxPages
    /\ crawlPc = "get" => (crawlPage = Len(crawlLog) + 1 /\ crawlPage <= MaxPages)

\* the crawl went on only after pages that were fetched, had cards and a next
\* URL other than their own
StopsAtFirst ==
    \A k \in 1..Len(crawlLog) :
        /\ crawlLog[k].outcome = "ok"
        /\ crawlLog[k].cards > 0
        /\ crawlLog[k].next # crawlLog[k].url
        /\ crawlLog[k].page = k

\* C19: whatever the site answers, the crawl of each start URL requests at
\* most max_pages pages and the crawl returns; it leaves a start URL at the
\* first page without cards, at the first failed request and when the next URL
\* is the current one.
C19_CrawlTerminates == [](PagesBounded /\ StopsAtFirst) /\ <>(crawlPc = "done")

\* the first start URL was left at the page ceiling, and the crawl of the
\* second is back at the URL it started from (a cycle of next links)
C19_Witness ==
    /\ Len(crawlLeft) = 1
    /\ crawlLeft[1] = [pages |-> MaxPages, why |-> "max_pages", requests |-> 1]
    /\ crawlPc = "get"
    /\ Len(crawlLog) >= 2
    /\ crawlUrl = crawlLog[1].url
    /\ crawlLog[2].url # crawlUrl

(***************************************************************************)
(* Claims about the run (specification SpecRunFair)                        *)
(***************************************************************************)

\* the sources fetched so far are the first ones of SOURCES, in its order,
\* and the roots left so far are the first ones of the start URLs
InOrder ==
    /\ Len(srcLog) <= Len(SOURCES)
    /\ srcLog = SubSeq(SOURCES, 1, Len(srcLog))
    /\ pipePc \in {"collect", "item"} => srcIdx = Len(srcLog) + (IF pipePc = "collect" THEN 1 ELSE 0)
    /\ pipePc = "crawl" /\ crawlPc = "get" => crawlRoot = Len(crawlLeft) + 1

RunComplete ==
    /\ pipePc = "done"
    /\ srcLog = SOURCES
    /\ Len(crawlLeft) = NumStartUrls

\* C18: whichever fetches fail, collect_items goes on to every later source of
\* SOURCES in order, the crawler goes on to every later start URL, and the run
\* reaches its summary line; the step in which a source fails yields no item.
C18_RunCompletes ==
    /\ []InOrder
    /\ [][srcFailed' # srcFailed => hand' = <<>>]_vars
    /\ <>[]RunComplete

\* the run is done although sources failed and a start URL was left after a
\* failed request
C18_Witness ==
    /\ RunComplete
    /\ srcFailed >= 2
    /\ srcFailed < Len(SOURCES)
    /\ crawlLeft[1].why = "fetch failed"
    /\ crawlLeft[2].why # "fetch failed"

(***************************************************************************)
(* Claims about the controls table (specification SpecSeed)                *)
(***************************************************************************)

\* the last entry of the seed list with the (trimmed) ref of entry k
LastWithRef(list, k) ==
    list[CHOOSE j \in 1..Len(list) :
            /\ Strip(list[j].ref) = Strip(list[k].ref)
            /\ \A m \in (j + 1)..Len(list) : Strip(list[m].ref) # Strip(list[k].ref)]
RowOfRef(ref) == controls[CHOOSE i \in 1..Len(controls) : controls[i].ref = Strip(ref)]

OneRowPerRef ==
    \A i, j \in 1..Len(controls) :
        /\ controls[i].ref = Strip(controls[i].ref)
        /\ (controls[i].ref = controls[j].ref \/ controls[i].id = controls[j].id) => i = j

\* no call changes the id or the ref of a row, and a link row always has its
\* control
RowsStay ==
    /\ \A l \in links : \E i \in 1..Len(controls) : controls[i].id = l.control_id
    /\ seeded # <<>> =>
          \A k \in 1..Len(seeded[1].list) :
              /\ seeded[1].ids[k] = RowOfRef(seeded[1].list[k].ref).id
              /\ seeded[1].had[k] # 0 => seeded[1].ids[k] = seeded[1].had[k]

ReplayUnchanged == (seeded # <<>> /\ seeded[1].again) => seeded[1].unchanged

\* name and keywords of the row are those of the last entry with its ref
LaterContentWins ==
    seeded # <<>> =>
        \A k \in 1..Len(seeded[1].list) :
            LET last == LastWithRef(seeded[1].list, k)
                row == RowOfRef(last.ref)
            IN  /\ row.name = Strip(last.name)
                /\ row.keywords = json_array(last.keywords)

\* the framework of the row is that of the last entry with its ref
LaterFrameworkWins ==
    seeded # <<>> =>
        \A k \in 1..Len(seeded[1].list) :
            RowOfRef(seeded[1].list[k].ref).framework = LastWithRef(seeded[1].list, k).framework

\* the framework of the row is that of the last entry with its ref that names
\* one
LaterNamedFrameworkWins ==
    seeded # <<>> =>
        \A k \in 1..Len(seeded[1].list) :
            LastWithRef(seeded[1].list, k).framework # Null =>
                RowOfRef(seeded[1].list[k].ref).framework = LastWithRef(seeded[1].list, k).framework

\* C20 as stated: one row per trimmed ref; an upsert of an existing ref
\* returns the id the ref had and the link rows keep their control; a replay
\* of a seed list leaves the table unchanged; of two entries with the same
\* ref the later one wins.
C20_Original ==
    /\ OneRowPerRef /\ RowsStay /\ ReplayUnchanged
    /\ LaterContentWins /\ LaterFrameworkWins

\* C20, amended: as above, but the later entry wins with its name and
\* keywords (description, themes), and with its framework (version) only if
\* it names one; otherwise the row keeps the framework it had.
C20_UpsertByRef ==
    /\ OneRowPerRef /\ RowsStay /\ ReplayUnchanged
    /\ LaterContentWins /\ LaterNamedFrameworkWins

\* a seed list with the same ref twice was replayed while a link row points
\* to the control of that ref
C20_Witness ==
    /\ seeded # <<>>
    /\ seeded[1].again
    /\ Len(seeded[1].list) = 2
    /\ Strip(seeded[1].list[1].ref) = Strip(seeded[1].list[2].ref)
    /\ seeded[1].list[1].name # seeded[1].list[2].name
    /\ seeded[1].had = seeded[1].ids
    /\ \E l \in links : l.control_id = seeded[1].ids[1]

(***************************************************************************)
(* Claims about the summary cache (specification SpecSum)                  *)
(***************************************************************************)

\* C5: for an item with non-empty text and any provider behaviour, two
\* successive summary requests with the same key make at most one provider
\* call in total, and the second answers with the string of the first.
C5_CacheOnce ==
    \A k \in 1..(Len(reqLog) - 1) :
        (reqLog[k].guid = reqLog[k + 1].guid /\ reqLog[k].status = 200 /\ reqLog[k].hasText) =>
            /\ reqLog[k].calls + reqLog[k + 1].calls <= 1
            /\ reqLog[k + 1].summary = reqLog[k].summary

\* C6: no ai_summary written by a summary request matches the junk-snippet
\* blocklist (every stored table of SpecSum starts with ai_summary NULL).
C6_NoBoilerplateStored ==
    \A i \in 1..Len(items) :
        items[i].ai_summary # Null => ~is_boilerplate_summary(items[i].ai_summary)

(***************************************************************************)
(* Claims on generate_ai_summary (SpecGen)                                 *)
(***************************************************************************)
GenDone == genOut # <<>>
GenRes == genOut[1]
GenText == Strip(genIn.text)
NWords(s) == Len(Split(s))
EndsWithEllipsis(s) == s # <<>> /\ s[Len(s)] = Ellipsis

\* the words of the source (the provider's reply, or the text on the fallback
\* path) were more than word_limit, so some were cut
GenWordsCut ==
    /\ GenText # <<>>
    /\ IF genIn.provider.kind = "reply"
       THEN NWords(genIn.provider.content) > genIn.limit
       ELSE NWords(GenText) > genIn.limit

\* C7 as stated: every returned string, the sentinel included and for every
\* word_limit, has at most word_limit words, and ends with the ellipsis marker
\* when words were cut.
C7_Original ==
    GenDone =>
        /\ NWords(GenRes.out) <= genIn.limit
        /\ GenWordsCut => EndsWithEllipsis(GenRes.out)

\* C7 amended: for a non-empty text and word_limit >= 1 the returned string has
\* at most word_limit words; whenever words were cut it ends with the ellipsis
\* marker; the empty-text sentinel comes back whole (5 words) whatever the
\* word_limit; and with word_limit = 0 a cut result is the marker alone, which
\* counts as one word.
C7_WordLimit ==
    GenDone =>
        /\ (GenText # <<>> /\ genIn.limit >= 1) => NWords(GenRes.out) <= genIn.limit
        /\ GenWordsCut => EndsWithEllipsis(GenRes.out)
        /\ GenText = <<>> => (GenRes.out = NoContentSentinel /\ NWords(GenRes.out) = 5)
        /\ (GenWordsCut /\ genIn.limit = 0) => GenRes.out = <<Ellipsis>>

\* a provider reply of more words than the limit was cut to exactly the limit
C7_Witness ==
    /\ GenDone
    /\ genIn.provider.kind = "reply"
    /\ genIn.limit = 1
    /\ NWords(genIn.provider.content) > 1
    /\ NWords(GenRes.out) = 1
    /\ EndsWithEllipsis(GenRes.out)

\* the first n words of s, joined by single spaces
FirstWords(s, n) == JoinSp([i \in 1..Min(n, NWords(s)) |-> Split(s)[i]])

\* C8: with the provider absent or failing, no error leaves the function and
\* the result is the first word_limit words of the text, with the ellipsis
\* marker exactly when the text has more words; an empty text gives the
\* sentinel and no provider call.
C8_Fallback ==
    GenDone =>
        /\ genIn.provider.kind \in {"absent", "error"} =>
             /\ ~GenRes.raised
             /\ GenText # <<>> =>
                  GenRes.out = FirstWords(GenText, genIn.limit)
                      \o (IF NWords(GenText) > genIn.limit THEN <<Ellipsis>> ELSE <<>>)
        /\ GenText = <<>> =>
             (GenRes.out = NoContentSentinel /\ GenRes.calls = 0 /\ ~GenRes.raised)

\* the provider call failed on a text of more words than the limit
C8_Witness ==
    /\ GenDone
    /\ genIn.provider.kind = "error"
    /\ GenRes.calls = 1
    /\ NWords(GenText) > genIn.limit
    /\ genIn.limit >= 1
    /\ EndsWithEllipsis(GenRes.out)

(***************************************************************************)
(* Claims on the relevance score (SpecScore, SpecMono)                     *)
(***************************************************************************)
ScDone == scOut # <<>>
InUnit(x) == FracLe(Zero, x) /\ FracLe(x, One)

\* C9: for every text, keywords column and control name, the keyword score and
\* the score relink uses (name bonus added) lie in [0,1].
C9_ScoreInUnit ==
    ScDone => (InUnit(scOut[1].score) /\ InUnit(scOut[1].linked))

\* every keyword matched and the name bonus applied: the cap is what keeps the
\* score at 1
C9_Witness ==
    /\ ScDone
    /\ FracEq(scOut[1].score, One)
    /\ \E tok \in Tokenize(scIn.name) : Contains(tok, Lower(scIn.text))
    /\ FracEq(scOut[1].linked, One)

\* kw matches the text: a single word that is a token of the text, or a phrase
\* that is a substring of it
Matches(text, kw) ==
    LET k == Lower(Strip(kw))
    IN  IF IsPhrase(k) THEN Contains(k, Lower(text)) ELSE k \in Tokenize(Lower(text))

\* C10: appending one keyword that matches the text never lowers the score,
\* and raises it when the score was 0.
C10_Monotone ==
    (ScDone /\ Matches(scIn.text, scIn.added)) =>
        /\ FracLe(scOut[1].before, scOut[1].after)
        /\ FracEq(scOut[1].before, Zero) => FracLt(Zero, scOut[1].after)

\* a list whose keywords all miss the text scored 0, and the matching keyword
\* raised it to a score below the cap
C10_Witness ==
    /\ ScDone
    /\ Matches(scIn.text, scIn.added)
    /\ scIn.keywords.list # <<>>
    /\ FracEq(scOut[1].before, Zero)
    /\ FracLt(Zero, scOut[1].after)
    /\ FracLt(scOut[1].after, One)

(***************************************************************************)
(* C21: store writes that fail, and the three counters                     *)
(***************************************************************************)
BatchFinished == batchIn # <<>> /\ batchPos = 0

\* C21: when a run has printed its counters, failed is the number of
\* candidates whose store write raised, in the feed loop and in the crawler
\* alike, and saved + skipped + failed is the number of candidates handled
C21_FailedCounted ==
    BatchFinished =>
        /\ tally.failed = batchHist.writeFails
        /\ tally.saved + tally.skipped + tally.failed = batchHist.handled

(***************************************************************************)
(* C22: the date cutoff                                                    *)
(***************************************************************************)
\* the dates of the model that are well-formed, aware and before the cutoff
OlderDates(since) ==
    IF since = None THEN {}
    ELSE IF since[1].day = 20240615
    THEN {<<"2","0","2","3","-","0","1","-","3","1","T","0","0",":","0","0",":","0","0","Z">>,
          <<"2","0","2","3","-","0","3","-","0","1","T","0","0",":","0","0",":","0","0","Z">>,
          <<"2","0","2","4","-","0","6","-","1","5","T","1","2",":","2","9",":","5","9","+","0","0",":","0","0">>}
    ELSE {<<"2","0","2","3","-","0","1","-","3","1","T","0","0",":","0","0",":","0","0","Z">>,
          <<"2","0","2","3","-","0","3","-","0","1","T","0","0",":","0","0",":","0","0","Z">>}

\* C22: with a cutoff set, in the feed loop and in the crawler, a candidate is
\* dropped for its date only if the date is a well-formed timestamp strictly
\* before the cutoff; one with no date or a malformed date is never dropped
C22_CutoffKeepsUndated ==
    fnOut # <<>> =>
        /\ fnOut[1].dropped => fnIn.since # None /\ fnIn.published \in OlderDates(fnIn.since)
        /\ fnIn.published \in {Null, <<>>} \cup MalformedDates => ~fnOut[1].dropped

\* a cutoff is set and a candidate with a malformed date was kept
C22_Witness ==
    /\ fnOut # <<>>
    /\ fnIn.since # None
    /\ fnIn.published \in MalformedDates
    /\ ~fnOut[1].dropped

(***************************************************************************)
(* C23: a run that is killed and run again                                 *)
(***************************************************************************)
GuidsOf(tbl) == {tbl[i].guid : i \in 1..Len(tbl)}
OneRowEach(tbl) == \A i, j \in 1..Len(tbl) : tbl[i].guid = tbl[j].guid => i = j

\* C23: when a run was killed at any point, a full run on the same sources
\* followed and no store write failed, the table holds the guids a single
\* undisturbed run leaves, each in one row
C23_RestartSafe ==
    (BatchFinished /\ batchHist.killed > 0 /\ ~batchHist.everFailed) =>
        /\ GuidsOf(items) = GuidsOf(run(<<>>, batchIn))
        /\ OneRowEach(items)

\* a run was killed after it had stored a row, and the run after it stored
\* another one and finished
C23_Witness ==
    /\ BatchFinished /\ batchHist.killed > 0 /\ ~batchHist.everFailed
    /\ batchHist.inherited >= 1
    /\ Len(items) > batchHist.inherited

(***************************************************************************)
(* C24: the keyword score against the formula of the specification         *)
(***************************************************************************)
HasWhitespace(k) == \E i \in 1..Len(k) : IsSpace(k[i])

\* min(1, overlap / max(1, S) + min(1, P * 0.5 / 2)) over the string keywords
\* that are not blank: S counts the keywords without whitespace, overlap those
\* of them that are tokens of the text, P the keywords with whitespace that
\* occur in the lowercased text
ReferenceScore(text, json) ==
    LET kws == LoadKeywords(json)
        single(k) == ~HasWhitespace(k)
        hit(k) == single(k) /\ Lower(k) \in Tokenize(text)
        found(k) == HasWhitespace(k) /\ Contains(Lower(k), Lower(text))
    IN  FracMin(One, FracAdd(Frac(Len(SelectSeq(kws, hit)), Max(1, Len(SelectSeq(kws, single)))),
                             FracMin(One, Frac(Len(SelectSeq(kws, found)), 4))))

ReferenceLinked(text, name, json) ==
    LET ref == ReferenceScore(text, json)
    IN  IF \E tok \in Tokenize(name) : Contains(tok, Lower(text))
        THEN FracMin(One, FracAdd(ref, NameBonus))
        ELSE ref

C25_AtomicRelink ==
    /\ txPc \in {"open", "failed"} => ItemLinks(links, txHist[1].guid) = txHist[1].old
    /\ (txPc = "done" /\ txHist[1].new # {}) => ItemLinks(links, txHist[1].guid) = txHist[1].new
    /\ (seen # <<>> /\ txPc = "open" /\ seen[1].during = "open"
            /\ seen[1].guid = txHist[1].guid) =>
          seen[1].rows = txHist[1].old

\* another connection read the links of the item between the DELETE and the
\* commit of a call that replaces a non-empty old set by a different one,
\* while the new set is inserted in part
C25_Witness ==
    /\ txPc = "open"
    /\ seen # <<>> /\ seen[1].during = "open" /\ seen[1].guid = txHist[1].guid
    /\ txHist[1].old # {}
    /\ txHist[1].old # txHist[1].new
    /\ txTodo # <<>>
    /\ ItemLinks(txView, txHist[1].guid) \notin {{}, txHist[1].old, txHist[1].new}
    /\ seen[1].rows = txHist[1].old

\* a call failed after its DELETE and the old links are in place
C25_WitnessFailed ==
    txPc = "failed" /\ txHist[1].old # {} /\ ItemLinks(links, txHist[1].guid) = txHist[1].old

(***************************************************************************)
(* C26: concurrent summary requests for one item                           *)
(***************************************************************************)
\* C26: of the requests for one item, at most one calls the provider, and
\* after a request that called it and got a summary every request for the
\* item answers with that summary, which is the one stored
C26_SingleFlight ==
    \A a, b \in 1..Len(reqLog) :
        (/\ a < b /\ reqLog[a].guid = reqLog[b].guid
         /\ reqLog[a].status = 200 /\ reqLog[a].calls = 1 /\ Truthy(reqLog[a].summary)) =>
            /\ reqLog[b].calls = 0
            /\ reqLog[b].summary = reqLog[a].summary

(***************************************************************************)
(* C27: two ingestion runs that handle the same record at the same time    *)
(***************************************************************************)
\* a run passed its exists() check for the guid and its upsert_item met a row
\* that was written in between
LostRace(g) == lastWrite[g].by = "feed" /\ lastWrite[g].conflict

\* C27: when a run's upsert_item meets the row another run has written for
\* the same guid since the run's exists() check, the statement completes, the
\* guid keeps exactly one row, and the row holds the columns of that write
C27_ConcurrentRuns ==
    \A g \in Guids :
        LostRace(g) =>
            /\ Cardinality(RowIdx(g)) = 1
            /\ \A i \in RowIdx(g) : Fields(items[i]) = FeedWork[lastWrite[g].rec].stored

\* both runs passed exists() for the same record with native id g1, both
\* wrote it, and the second write met the row of the first
C27_Witness ==
    /\ LostRace(<<"g","1">>)
    /\ lastWrite[<<"g","1">>].same
    /\ \A r \in Runs : runPc[r] = "idle"
    /\ Cardinality(RowIdx(<<"g","1">>)) = 1

(***************************************************************************)
(* C28: re-ingestion and the cached summary                                *)
(***************************************************************************)
Answered == reqLog' # reqLog
LastAnswer == reqLog'[Len(reqLog')]
UpsertStep == lastWrite' # lastWrite

\* C28: an upsert_item step leaves ai_summary and ai_summary_updated_at of
\* every stored row as they were, whatever columns it changes, and a summary
\* request for a row that has a cached summary answers with it, without a
\* provider call and without a write
C28_UpsertKeepsSummary ==
    [][/\ UpsertStep =>
            \A i \in 1..Len(items) :
                /\ items'[i].guid = items[i].guid
                /\ items'[i].ai_summary = items[i].ai_summary
                /\ items'[i].ai_summary_updated_at = items[i].ai_summary_updated_at
       /\ Answered =>
            LET i == find_item_by_guid(items, LastAnswer.guid)
            IN  (i # 0 /\ Truthy(items[i].ai_summary)) =>
                    /\ LastAnswer.summary = items[i].ai_summary
                    /\ LastAnswer.calls = 0
                    /\ items' = items]_vars

\* a summary was generated and cached for u1, the crawler then stored u1
\* again with other columns, and the next request for u1 was answered with
\* the summary of the first
C28_Witness ==
    /\ Len(reqLog) = 2
    /\ reqLog[1].guid = <<"u","1">> /\ reqLog[2].guid = <<"u","1">>
    /\ reqLog[1].calls = 1 /\ reqLog[2].calls = 0
    /\ reqLog[2].summary = reqLog[1].summary
    /\ lastWrite[<<"u","1">>].conflict /\ ~lastWrite[<<"u","1">>].same
    /\ lastWrite[<<"u","1">>].after = 1
    /\ \E i \in RowIdx(<<"u","1">>) : items[i].ai_summary = reqLog[1].summary

(***************************************************************************)
(* C29: the rows a summary request writes                                  *)
(***************************************************************************)
\* C29: a summary request for guid k leaves the ai_summary of every row whose
\* guid is not k as it was
C29_OnlyOwnRow ==
    [][Answered =>
        \A i \in 1..Len(items) :
            items[i].guid # LastAnswer.guid => items'[i].ai_summary = items[i].ai_summary]_vars

(***************************************************************************)
(* C30: keywords that can never match                                      *)
(***************************************************************************)
\* a single-word keyword of fewer than 3 characters, or with a character that
\* is not alphanumeric
Unmatchable(k) == ~HasWhitespace(k) /\ (Len(k) < 3 \/ \E i \in 1..Len(k) : ~IsAlnum(k[i]))

\* C30: for a keyword list without phrase keywords, the base score is the
\* number of keywords other than the unmatchable ones that are tokens of the
\* text, over the number of all keywords, the unmatchable ones included; with
\* an unmatchable keyword in the list it is below 1 for every text
C30_UnmatchableKeyword ==
    LET kws == LoadKeywords(scIn.keywords)
        hit(k) == ~Unmatchable(k) /\ Lower(k) \in Tokenize(scIn.text)
        dead(k) == Unmatchable(k)
    IN  (scOut # <<>> /\ \A i \in 1..Len(kws) : ~HasWhitespace(kws[i])) =>
            /\ FracEq(scOut[1].score, Frac(Len(SelectSeq(kws, hit)), Max(1, Len(kws))))
            /\ SelectSeq(kws, dead) # <<>> => FracLt(scOut[1].score, One)

\* the keywords 'inc' and 'OT' against a text that has both words: half
C30_Witness ==
    /\ scOut # <<>>
    /\ LoadKeywords(scIn.keywords) = <<KwInc, KwOT>>
    /\ Contains(KwOT, scIn.text)
    /\ Contains(<<"I","n","c">>, scIn.text)
    /\ FracEq(scOut[1].score, Frac(1, 2))

====
